---- MODULE Spec2Model ----
(***************************************************************************)
(* Model of the tool-calling orchestrator of the project automator:        *)
(* GeminiToolsAgent.run (app/orchestration/coordinator.py), the session    *)
(* context store (app/services/context_service.py) and the HTTP entry      *)
(* point run_adk (app/main.py).                                            *)
(*                                                                         *)
(* Every request is one coroutine.  The code between two awaits runs       *)
(* atomically on the event loop, so each action below is the code between  *)
(* two awaits (or a loop iteration inside such a stretch, which touches    *)
(* only the coroutine's own locals).                                       *)
(***************************************************************************)
EXTENDS Integers, Sequences, FiniteSets, TLC

(***************************************************************************)
(* Bounds of the model.                                                    *)
(***************************************************************************)
\* function calls the model may emit over all the turns of one run
MaxFunctionCalls == 3
\* overlapping requests of the concurrent specification
MaxRequests == 2

\* entries of each list of the contexts handed to the save-and-reload round trip
MaxSaved == 1

\* function calls the model may emit in a run of the argument specification
MaxArgCalls == 1
\* turns a context of the store specification may record
MaxTurns == 6
MaxRegistrations == 3
MaxExtractTurns == 2
MaxSprintId == 5

Requests == 1..MaxRequests

(***************************************************************************)
(* Python values.  Dicts are functions over string keys; None and lists    *)
(* that share a slot with dicts are wrapped in a dict-shaped value.        *)
(***************************************************************************)
NoneVal == "<None>"
NoneRec == [none |-> NoneVal]
EmptyDict == [k \in {} |-> ""]

Get(d, k) == IF k \in DOMAIN d THEN d[k] ELSE NoneVal
Falsy(v) == v \in {NoneVal, ""}
Put(d, k, v) == [x \in (DOMAIN d) \cup {k} |-> IF x = k THEN v ELSE d[x]]
Pop(d, k) == [x \in (DOMAIN d) \ {k} |-> d[x]]

\* a function-call name as the model sent it: its text without the
\* surrounding whitespace, and whether whitespace surrounds it
RawName(core, pad) == [core |-> core, pad |-> pad]
\* str.strip() on such a name
Strip(n) == n.core
\* `not fc.name or not fc.name.strip()`
Malformed(n) == Strip(n) = ""

FC(core, pad, args) == [name |-> RawName(core, pad), args |-> args]

(***************************************************************************)
(* settings (app/config/settings.py)                                       *)
(***************************************************************************)
jira_default_project_key == "TP"

(***************************************************************************)
(* ALL_TOOL_RUNNERS (app/adk_tools/__init__.py)                            *)
(***************************************************************************)
ALL_TOOL_RUNNERS ==
    { "jira_fetch_issue", "jira_get_projects", "jira_get_issues_for_project",
      "jira_create_issue", "jira_assign_issue", "jira_get_possible_transitions",
      "jira_transition_issue", "jira_comment_issue", "jira_get_sprints",
      "jira_move_issue_to_sprint", "github_get_repos", "github_get_branches",
      "github_create_branch", "github_create_pull_request",
      "github_merge_pull_request", "github_close_pull_request",
      "github_get_issues", "github_create_issue", "github_comment_issue",
      "email_send", "regenerate_email_summary", "finalize_email_summary" }

(***************************************************************************)
(* SessionContext and ContextService (app/services/context_service.py)     *)
(***************************************************************************)
\* SessionContext.__init__ (the timestamps and the fields no code assigns,
\* current_jira_project, current_jira_sprint and user_preferences, are left out)
SessionContext ==
    [ session_id |-> "",
      conversation_history |-> << >>,
      current_owner |-> NoneVal,
      current_repository |-> NoneVal,
      active_branches |-> << >>,
      recent_issues |-> << >>,
      recent_prs |-> << >>,
      current_jira_project_key |-> NoneVal,
      recent_jira_issues |-> << >>,
      recent_jira_projects |-> << >>,
      recent_jira_sprints |-> << >>,
      recent_actions |-> << >> ]

\* the context file: absent, holding the JSON last written to it, or holding
\* something json.load cannot read
NoFile == [exists |-> FALSE]
FileOf(data) == [exists |-> TRUE, data |-> data]
CorruptFile == [exists |-> TRUE, corrupt |-> TRUE]

\* an object (a pydantic model) is a dict that carries its class
IsObject(v) == "class" \in DOMAIN v
HasAttr(v, a) == IsObject(v) /\ a \in DOMAIN v

\* SessionContext._make_serializable on a tool response: an object becomes
\* the dict of its public attributes
SerializeValue(v) == IF IsObject(v) THEN Pop(v, "class") ELSE v

\* SessionContext._make_serializable on a list of tool responses
SerializeList(l) == [i \in DOMAIN l |-> SerializeValue(l[i])]

\* SessionContext._make_serializable on the `result` of a response
SerializeResult(r) ==
    IF "items" \in DOMAIN r
    THEN [items |-> SerializeList(r.items)]
    ELSE SerializeValue(r)

\* SessionContext._make_serializable on an agent response
SerializeResponse(resp) ==
    IF "result" \in DOMAIN resp
    THEN [resp EXCEPT !.result = SerializeResult(resp.result)]
    ELSE resp

\* SessionContext.to_dict on the modelled fields
to_dict(ctx) ==
    [ctx EXCEPT !.conversation_history =
                    [i \in DOMAIN ctx.conversation_history |->
                        [ctx.conversation_history[i] EXCEPT
                            !.agent_response = SerializeResponse(@)]],
                !.recent_issues = SerializeList(@),
                !.recent_prs = SerializeList(@),
                !.recent_jira_issues = SerializeList(@),
                !.recent_jira_projects = SerializeList(@),
                !.recent_jira_sprints = SerializeList(@)]

\* SessionContext.from_dict on the modelled fields
from_dict(data) ==
    [ session_id |-> data.session_id,
      conversation_history |-> data.conversation_history,
      current_owner |-> data.current_owner,
      current_repository |-> data.current_repository,
      active_branches |-> data.active_branches,
      recent_issues |-> data.recent_issues,
      recent_prs |-> data.recent_prs,
      current_jira_project_key |-> data.current_jira_project_key,
      recent_jira_issues |-> data.recent_jira_issues,
      recent_jira_projects |-> data.recent_jira_projects,
      recent_jira_sprints |-> data.recent_jira_sprints,
      recent_actions |-> data.recent_actions ]

\* the last n elements of a list: s[-n:]
LastN(s, n) == IF Len(s) <= n THEN s ELSE SubSeq(s, Len(s) - n + 1, Len(s))

\* str.startswith("jira_") on the tool names of the model
StartsWithJira(core) ==
    core \in { "jira_fetch_issue", "jira_get_projects", "jira_get_issues_for_project",
               "jira_create_issue", "jira_assign_issue", "jira_get_possible_transitions",
               "jira_transition_issue", "jira_comment_issue", "jira_get_sprints",
               "jira_move_issue_to_sprint", "jira_get_issue_comments",
               "jira_summarize_and_email_issue" }

\* ticket_id.split("-")[0] when "-" in ticket_id, on the ticket ids of the model
TicketProject(ticket_id) ==
    CASE ticket_id = "TP-1" -> "TP"
      [] ticket_id = "OPS-7" -> "OPS"
      [] OTHER -> NoneVal

\* one pass of the `for tool_call in tool_calls` loop of
\* SessionContext._extract_context_from_response
ExtractToolCall(ctx, tool_call, result) ==
    LET args == tool_call.args
        tool_name == IF tool_call.name.pad THEN "" ELSE tool_call.name.core
        c1 == IF "owner" \in DOMAIN args /\ "repo" \in DOMAIN args
              THEN [ctx EXCEPT !.current_owner = args["owner"],
                               !.current_repository = args["repo"]]
              ELSE ctx
        c2 == IF StartsWithJira(tool_name) /\ "project_key" \in DOMAIN args
              THEN [c1 EXCEPT !.current_jira_project_key = args["project_key"]]
              ELSE c1
        c3 == IF StartsWithJira(tool_name) /\ "ticket_id" \in DOMAIN args
                 /\ TicketProject(args["ticket_id"]) # NoneVal
              THEN [c2 EXCEPT !.current_jira_project_key = TicketProject(args["ticket_id"])]
              ELSE c2
        action == [tool |-> tool_call.name, args |-> args,
                   result |-> SerializeResult(result)]
    IN [c3 EXCEPT !.recent_actions = LastN(Append(c3.recent_actions, action), 10)]

\* a loop that stops after the first tool call
ExtractToolCalls_Mutant(ctx, tool_calls, result) ==
    IF tool_calls = << >> THEN ctx
    ELSE ExtractToolCall(ctx, Head(tool_calls), result)

RECURSIVE ExtractToolCalls(_, _, _)
ExtractToolCalls(ctx, tool_calls, result) ==
    IF tool_calls = << >> THEN ctx
    ELSE ExtractToolCalls(ExtractToolCall(ctx, Head(tool_calls), result),
                          Tail(tool_calls), result)

\* result[:n]
FirstN(s, n) == IF Len(s) <= n THEN s ELSE SubSeq(s, 1, n)

\* the shapes of a `result`: None, a list, an object or a dict
IsList(result) == "items" \in DOMAIN result
IsDict(result) == ~IsList(result) /\ ~IsObject(result) /\ "none" \notin DOMAIN result
\* `if result:`
Truthy(result) ==
    IF IsList(result) THEN result.items # << >>
    ELSE IF IsObject(result) THEN TRUE
    ELSE IsDict(result) /\ DOMAIN result # {}

\* `k in v`: a key of a dict; on a pydantic object `in` goes through the
\* (field, value) pairs of __iter__ and finds no string
InDict(k, v) == ~IsObject(v) /\ k \in DOMAIN v

\* `"/issues/" in html_url` and `"/pull/" in html_url` on the URLs of the model
ContainsIssues(url) == url \in { "https://github.com/o/r/issues/7" }
ContainsPull(url) == url \in { "https://github.com/o/r/pull/1" }

\* the test for a branch list on the first item of a list result
IsBranch(first_item) ==
    \/ InDict("name", first_item) /\ InDict("commit_sha", first_item)
    \/ HasAttr(first_item, "name") /\ HasAttr(first_item, "commit_sha")

\* `for branch in result`: branch["name"] of a dict without that key raises
\* KeyError; the place of the first such item, 0 when there is none
BranchKeyError(items) ==
    LET bad == { i \in DOMAIN items : ~IsObject(items[i]) /\ "name" \notin DOMAIN items[i] }
    IN IF bad = {} THEN 0 ELSE CHOOSE i \in bad : \A j \in bad : i <= j

NamedBranch(branch) == ~IsObject(branch) \/ HasAttr(branch, "name")

\* the names the branch loop appends for `items`
BranchNames(items) ==
    LET named == SelectSeq(items, NamedBranch)
    IN [i \in DOMAIN named |-> named[i].name]

InsertRecent_Mutant(recent, result) == <<result>> \o recent
\* list.insert(0, result) followed by the truncation to five entries
InsertRecent(recent, result) == FirstN(<<result>> \o recent, 5)

\* the list branch of `if result:` (lines 124-155): every non-empty list
\* that is not a repository list is taken by the branch test, which leaves
\* the later elifs without a list to act on
ExtractList(ctx, items) ==
    LET first_item == items[1] IN
    IF InDict("name", first_item) /\ InDict("full_name", first_item) THEN ctx
    ELSE IF Len(items) > 0 THEN
        IF IsBranch(first_item)
        THEN [ctx EXCEPT !.active_branches =
                IF BranchKeyError(items) = 0 THEN BranchNames(items)
                ELSE BranchNames(SubSeq(items, 1, BranchKeyError(items) - 1))]
        ELSE ctx
    ELSE IF InDict("number", first_item) /\ InDict("title", first_item)
    THEN [ctx EXCEPT !.recent_issues = FirstN(items, 5)]
    ELSE IF InDict("id", first_item) /\ InDict("number", first_item)
    THEN [ctx EXCEPT !.recent_prs = FirstN(items, 5)]
    ELSE IF InDict("key", first_item) /\ InDict("name", first_item)
    THEN [ctx EXCEPT !.recent_jira_projects = FirstN(items, 5)]
    ELSE IF InDict("key", first_item) /\ InDict("fields", first_item)
    THEN [ctx EXCEPT !.recent_jira_issues = FirstN(items, 5)]
    ELSE IF InDict("id", first_item) /\ InDict("name", first_item)
    THEN [ctx EXCEPT !.recent_jira_sprints = FirstN(items, 5)]
    ELSE ctx

\* the dict branch of `if result:` (lines 156-178)
ExtractDict(ctx, result) ==
    IF "number" \in DOMAIN result /\ "title" \in DOMAIN result THEN
        IF "html_url" \in DOMAIN result /\ ContainsIssues(result["html_url"])
        THEN [ctx EXCEPT !.recent_issues = InsertRecent(@, result)]
        ELSE IF "html_url" \in DOMAIN result /\ ContainsPull(result["html_url"])
        THEN [ctx EXCEPT !.recent_prs = InsertRecent(@, result)]
        ELSE ctx
    ELSE IF "key" \in DOMAIN result /\ "fields" \in DOMAIN result
    THEN [ctx EXCEPT !.recent_jira_issues = InsertRecent(@, result)]
    ELSE IF "key" \in DOMAIN result /\ "name" \in DOMAIN result
            /\ "fields" \notin DOMAIN result
    THEN [ctx EXCEPT !.recent_jira_projects = InsertRecent(@, result)]
    ELSE ctx

\* `if result:` of SessionContext._extract_context_from_response
ExtractResult(ctx, result) ==
    IF ~Truthy(result) THEN ctx
    ELSE IF IsList(result) THEN ExtractList(ctx, result.items)
    ELSE IF IsDict(result) THEN ExtractDict(ctx, result)
    ELSE ctx

\* whether the branch loop raises KeyError on this result
ExtractRaises(result) ==
    /\ IsList(result)
    /\ result.items # << >>
    /\ ~(InDict("name", result.items[1]) /\ InDict("full_name", result.items[1]))
    /\ IsBranch(result.items[1])
    /\ BranchKeyError(result.items) # 0

\* SessionContext._extract_context_from_response: the modelled responses never
\* carry "success" or "data", so result and toolCalls are read directly; when
\* the branch loop raises the context keeps what was assigned before
_extract_context_from_response(ctx, response) ==
    LET result == IF "result" \in DOMAIN response THEN response.result ELSE NoneRec
        tool_calls == IF "toolCalls" \in DOMAIN response THEN response.toolCalls ELSE << >>
    IN ExtractResult(ExtractToolCalls(ctx, tool_calls, result), result)

\* whether SessionContext.add_conversation raises on this response
AddConversationRaises(agent_response) ==
    "result" \in DOMAIN agent_response /\ ExtractRaises(agent_response.result)

\* SessionContext.add_conversation
add_conversation(ctx, user_input, agent_response) ==
    LET c == _extract_context_from_response(ctx, agent_response)
        conversation == [ user_input |-> user_input,
                          agent_response |-> agent_response,
                          tools_used |-> << >>,
                          success |-> FALSE ]
    IN [c EXCEPT !.conversation_history = Append(c.conversation_history, conversation)]

Meaningful_Mutant(data) ==
    \/ ~Falsy(data.current_repository)
    \/ data.recent_actions # << >>
\* the test of ContextService.get_or_create_context on the loaded JSON
Meaningful(data) ==
    \/ data.conversation_history # << >>
    \/ ~Falsy(data.current_repository)
    \/ data.recent_actions # << >>

get_or_create_context_Mutant(f, session_id) ==
    IF f.exists /\ "data" \in DOMAIN f /\ Meaningful(f.data)
       /\ session_id = [session |-> 1]
    THEN from_dict(f.data)
    ELSE [SessionContext EXCEPT !.session_id = "global_context"]
get_or_create_context_Stale(f, session_id) ==
    IF f.exists /\ "data" \in DOMAIN f /\ Meaningful(f.data)
    THEN from_dict(f.data)
    ELSE IF f.exists /\ "data" \notin DOMAIN f
    THEN [SessionContext EXCEPT !.current_owner = "o", !.current_repository = "r"]
    ELSE [SessionContext EXCEPT !.session_id = "global_context"]
\* ContextService.get_or_create_context: the context object it returns; an
\* unreadable file raises inside the try and falls through to a new context;
\* session_id is only printed
get_or_create_context(f, session_id) ==
    IF f.exists /\ "data" \in DOMAIN f /\ Meaningful(f.data)
    THEN from_dict(f.data)
    ELSE [SessionContext EXCEPT !.session_id = "global_context"]

\* ContextService.save_context: the file after the call
save_context(cur, objs, f) ==
    IF cur # 0 THEN FileOf(to_dict(objs[cur])) ELSE f

clear_context_Mutant ==
    [SessionContext EXCEPT !.session_id = "global_context", !.current_owner = "o",
                           !.current_repository = "r"]
\* ContextService.clear_context: the context object it creates and returns
clear_context == [SessionContext EXCEPT !.session_id = "global_context"]

\* [x.get(key, '?') for x in recent[:3]]
FirstThree(recent, key) ==
    [i \in DOMAIN FirstN(recent, 3) |-> IF key \in DOMAIN recent[i] THEN recent[i][key] ELSE "?"]

\* SessionContext.get_context_summary: the parts of the summary line
get_context_summary(ctx) ==
    [ repository |-> IF ~Falsy(ctx.current_owner) /\ ~Falsy(ctx.current_repository)
                     THEN [owner |-> ctx.current_owner, repo |-> ctx.current_repository]
                     ELSE NoneRec,
      branches |-> ctx.active_branches,
      issues |-> FirstThree(ctx.recent_issues, "number"),
      prs |-> FirstThree(ctx.recent_prs, "number"),
      jira_project |-> ctx.current_jira_project_key,
      jira_projects |-> FirstThree(ctx.recent_jira_projects, "key"),
      jira_issues |-> FirstThree(ctx.recent_jira_issues, "key"),
      jira_sprints |-> FirstThree(ctx.recent_jira_sprints, "name"),
      actions |-> [i \in DOMAIN LastN(ctx.recent_actions, 3) |->
                      LastN(ctx.recent_actions, 3)[i].tool] ]

\* the "Repository:" / "Jira Project:" line of one tool call, if any
ToolCallLine(tc) ==
    IF "owner" \in DOMAIN tc.args /\ "repo" \in DOMAIN tc.args
    THEN [line |-> "Repository", owner |-> tc.args["owner"], repo |-> tc.args["repo"]]
    ELSE IF "project_key" \in DOMAIN tc.args
    THEN [line |-> "Jira Project", key |-> tc.args["project_key"]]
    ELSE NoneRec

\* the lines get_context_for_prompt writes for the `result` of a turn
ResultLine(conv, result) ==
    IF ~Truthy(result) THEN NoneRec
    ELSE IF IsList(result) THEN
        LET items == result.items
            tool_calls == IF "toolCalls" \in DOMAIN conv.agent_response
                          THEN conv.agent_response.toolCalls ELSE << >>
            repo_info ==
                { [full_name |-> items[i]["full_name"]] :
                    i \in { j \in DOMAIN items : InDict("full_name", items[j]) } }
                \cup
                { [owner |-> tool_calls[1].args["owner"],
                   repo |-> Get(tool_calls[1].args, "repo")] :
                    i \in { j \in DOMAIN items :
                              /\ ~InDict("full_name", items[j])
                              /\ InDict("name", items[j]) /\ InDict("commit_sha", items[j])
                              /\ tool_calls # << >>
                              /\ "owner" \in DOMAIN tool_calls[1].args } }
            project_info ==
                { [key |-> items[i]["key"]] :
                    i \in { j \in DOMAIN items :
                              /\ ~InDict("full_name", items[j])
                              /\ ~(InDict("name", items[j]) /\ InDict("commit_sha", items[j]))
                              /\ InDict("key", items[j])
                              /\ InDict("name", items[j]) \/ InDict("id", items[j]) } }
        IN [line |-> "List", repositories |-> repo_info, projects |-> project_info,
            found |-> IF repo_info = {} /\ project_info = {} THEN Len(items) ELSE 0]
    ELSE IF IsDict(result) THEN
        IF "number" \in DOMAIN result
        THEN [line |-> "Result: Created/accessed #", number |-> result["number"]]
        ELSE IF "key" \in DOMAIN result
        THEN [line |-> "Result: Accessed", key |-> result["key"]]
        ELSE IF "full_name" \in DOMAIN result
        THEN [line |-> "Repository", full_name |-> result["full_name"]]
        ELSE IF "name" \in DOMAIN result /\ "commit_sha" \in DOMAIN result
        THEN [line |-> "Branch", name |-> result["name"]]
        ELSE NoneRec
    ELSE NoneRec

\* what get_context_for_prompt writes for one turn of the history
ConversationLines(conv) ==
    LET agent_response == conv.agent_response
        tool_calls == IF "toolCalls" \in DOMAIN agent_response
                      THEN agent_response.toolCalls ELSE << >>
        result == IF "result" \in DOMAIN agent_response
                  THEN agent_response.result ELSE NoneRec
    IN [ user |-> conv.user_input,
         tools_used |-> [i \in DOMAIN tool_calls |-> tool_calls[i].name],
         tool_lines |-> [i \in DOMAIN tool_calls |-> ToolCallLine(tool_calls[i])],
         result_line |-> ResultLine(conv, result),
         summary |-> IF "model_summary" \in DOMAIN agent_response
                     THEN agent_response.model_summary ELSE NoneRec ]

\* ContextService.get_context_for_prompt on the service's current context
get_context_for_prompt(cur, objs) ==
    IF cur = 0 THEN [empty |-> TRUE]
    ELSE LET recent_conversations == LastN(objs[cur].conversation_history, 5)
         IN [ summary |-> get_context_summary(objs[cur]),
              recent |-> [i \in DOMAIN recent_conversations |->
                             ConversationLines(recent_conversations[i])] ]

VARIABLES
    run,        \* the locals of each request's coroutine
    heap,       \* the SessionContext objects, one per request that made one
    current,    \* context_service.current_context: 0 (None) or an object id
    file        \* the context file

vars == <<run, heap, current, file>>

(***************************************************************************)
(* What the environment may answer: the model's function calls, the        *)
(* runners' results and the prompts.                                       *)
(***************************************************************************)
fcUnknown == FC("frobnicate", FALSE, EmptyDict)
fcBlank == FC("", TRUE, EmptyDict)
fcRepos == FC("github_get_repos", FALSE, EmptyDict)
fcEmailNoTo == FC("email_send", FALSE, [subject |-> "s", body |-> "b"])
fcEmailEmptyTo == FC("email_send", TRUE, [to |-> "", subject |-> "s", body |-> "b"])
fcEmailTo == FC("email_send", FALSE, [to |-> "a@b.io", subject |-> "s", body |-> "b"])
fcClose == FC("github_close_pull_request", FALSE,
              [owner |-> "o", repo |-> "r", pr_number |-> "4"])
fcCreatePR == FC("github_create_pull_request", FALSE,
                 [owner |-> "o", repo |-> "r", title |-> "t", head |-> "h", base |-> "main"])
fcBranch == FC("github_create_branch", TRUE,
               [owner |-> "o", repo |-> "r", branch_name |-> "b"])
fcJira == FC("jira_create_issue", FALSE, [title |-> "t"])

AllCalls == { fcUnknown, fcBlank, fcRepos, fcEmailNoTo, fcEmailEmptyTo,
              fcClose, fcCreatePR, fcBranch }

SeqsUpTo(S, n) == UNION { [1..k -> S] : k \in 0..n }

\* a model response: whether response.candidates[0].content.parts can be
\* read, and the function_call parts it carries
ModelResponse(parts_ok, calls) == [parts_ok |-> parts_ok, calls |-> calls]
NoResponse == ModelResponse(FALSE, << >>)
Responses(Calls, n) ==
    { NoResponse } \cup { ModelResponse(TRUE, c) : c \in SeqsUpTo(Calls, n) }

\* the model of the concurrent specification asks for the repositories or
\* answers in text, and answers in text once results were fed back
ConcResponses ==
    { NoResponse, ModelResponse(TRUE, << >>),
      ModelResponse(TRUE, << fcRepos >>) }
ConcFeedback == { NoResponse, ModelResponse(TRUE, << >>) }

\* what reading response.text gives: a text, "", blanks, None, or an exception
Raises == "<raises>"
TextOutcomes == { "answer", "", "  ", NoneVal, Raises }
BlankText_Mutant(t) == Falsy(t)
BlankText(t) == Falsy(t) \/ t = "  "

\* a prompt: its text, whether it contains "email" or "notify", and whether
\* the e-mail regex finds an address in it
Prompt(text, email, address) == [text |-> text, email |-> email, address |-> address]
Prompts(q) ==
    { Prompt(<<"show my repos", q>>, FALSE, FALSE),
      Prompt(<<"close pr 4 and notify the team", q>>, TRUE, FALSE),
      Prompt(<<"create a pr and email a@b.io", q>>, TRUE, TRUE) }
ConcPrompts(q) == { Prompt(<<"show my repos", q>>, FALSE, FALSE) }

PullRequest ==
    [class |-> "PullRequest", id |-> "1", number |-> "1", title |-> "t",
     state |-> "open", html_url |-> "http://example.com/pr/1"]

GithubBranch(name) == [class |-> "GithubBranch", name |-> name, commit_sha |-> "sha"]

\* the parameters without a default of each runner (adk_tools/runners.py)
Required(name) ==
    CASE name \in { "jira_fetch_issue", "jira_get_possible_transitions" } -> { "ticket_id" }
      [] name \in { "jira_get_projects", "github_get_repos" } -> {}
      [] name \in { "jira_get_issues_for_project", "jira_get_sprints" } -> { "project_key" }
      [] name = "jira_create_issue" -> { "project_key", "summary", "description" }
      [] name = "jira_assign_issue" -> { "ticket_id", "assignee" }
      [] name = "jira_transition_issue" -> { "ticket_id", "transition_id" }
      [] name = "jira_comment_issue" -> { "issue_key", "comment_text" }
      [] name = "jira_move_issue_to_sprint" -> { "ticket_id", "sprint_id" }
      [] name \in { "github_get_branches", "github_get_issues" } -> { "owner", "repo" }
      [] name = "github_create_branch" -> { "owner", "repo", "branch_name" }
      [] name = "github_create_pull_request" -> { "owner", "repo", "title", "head", "base" }
      [] name \in { "github_merge_pull_request", "github_close_pull_request" } ->
            { "owner", "repo", "pr_number" }
      [] name = "github_create_issue" -> { "owner", "repo", "title" }
      [] name = "github_comment_issue" -> { "owner", "repo", "issue_number", "comment_body" }
      [] name = "email_send" -> { "to", "subject", "body" }
      [] name = "regenerate_email_summary" -> { "initial_summary", "user_feedback" }
      [] name = "finalize_email_summary" -> { "final_summary", "to_email", "pr_details" }
      [] OTHER -> {}

\* the parameters with a default of each runner
Defaulted(name) ==
    CASE name = "jira_create_issue" -> { "issuetype_name" }
      [] name = "github_create_branch" -> { "source_branch" }
      [] name \in { "github_create_pull_request", "github_create_issue" } -> { "body" }
      [] name = "github_merge_pull_request" ->
            { "commit_title", "commit_message", "merge_method" }
      [] name = "regenerate_email_summary" ->
            { "key_points", "pr_details", "to_email", "issue_details" }
      [] OTHER -> {}

\* whether runner(**args) binds: otherwise the call raises TypeError
Binds(name, args) ==
    /\ Required(name) \subseteq DOMAIN args
    /\ DOMAIN args \subseteq Required(name) \cup Defaulted(name)

\* a text that is a str, None, or an f-string with its values
Str(t) == [str |-> t]
FalsyText(t) == t = NoneRec \/ t = Str("")

\* the details of a pull request as GET .../pulls/{n} answers them: the
\* request fails, or a title and a body that may be null
FetchFails == [fails |-> TRUE]
PullDetails == { FetchFails,
                 [title |-> "t", body |-> Str("b")],
                 [title |-> "t", body |-> NoneRec] }

\* the body of PUT .../pulls/{n}/merge
merge_data(merge_method, commit_title, commit_message) ==
    LET d0 == [merge_method |-> merge_method]
        d1 == IF ~FalsyText(commit_title) THEN Put(d0, "commit_title", commit_title) ELSE d0
    IN IF ~FalsyText(commit_message) THEN Put(d1, "commit_message", commit_message) ELSE d1

\* github_service.merge_pull_request when the merge request itself succeeds
merge_pull_request(github_mock, pr_number, commit_title, commit_message, merge_method, pr_data) ==
    IF github_mock
    THEN [ merged |-> "True", message |-> "Pull Request successfully merged",
           commit_sha |-> "abc123def456", merge_method |-> merge_method,
           commit_title |-> IF ~FalsyText(commit_title) THEN commit_title
                            ELSE [f |-> "Merge PR #{pr_number}", pr_number |-> pr_number],
           commit_message |-> IF ~FalsyText(commit_message) THEN commit_message
                              ELSE [f |-> "Merge pull request #{pr_number}",
                                    pr_number |-> pr_number] ]
    ELSE LET fetch == FalsyText(commit_title) \/ FalsyText(commit_message)
             title == IF ~fetch \/ ~FalsyText(commit_title) THEN commit_title
                      ELSE IF pr_data = FetchFails
                      THEN [f |-> "Merge PR #{pr_number}", pr_number |-> pr_number]
                      ELSE [f |-> "Merge PR #{pr_number}: {title}", pr_number |-> pr_number,
                            title |-> pr_data.title]
             message == IF ~fetch \/ ~FalsyText(commit_message) THEN commit_message
                        ELSE IF pr_data = FetchFails
                        THEN [f |-> "Merge pull request #{pr_number}", pr_number |-> pr_number]
                        ELSE pr_data.body
         IN [ merged |-> "True", message |-> "Pull Request successfully merged",
              sha |-> "abc123def456",
              commit_title |-> title, commit_message |-> message ]

\* run_github_merge_pull_request(**args): the defaults of the signature
MergeArg(args, k) ==
    IF k \in DOMAIN args THEN args[k]
    ELSE IF k = "merge_method" THEN Str("merge") ELSE NoneRec

\* what a runner may return when it does not raise
RunnerResults(name, args) ==
    CASE name = "github_create_pull_request" -> { PullRequest }
      [] name = "github_close_pull_request" ->
            { [state |-> "closed", number |-> "4"],
              [closed |-> "True", message |-> "Pull Request successfully closed"] }
      [] name = "github_create_branch" -> { GithubBranch(args["branch_name"]) }
      [] name = "github_merge_pull_request" ->
            { merge_pull_request(github_mock, args["pr_number"],
                                 MergeArg(args, "commit_title"),
                                 MergeArg(args, "commit_message"),
                                 MergeArg(args, "merge_method"), pr_data) :
                github_mock \in BOOLEAN, pr_data \in PullDetails }
      [] OTHER -> { [ok |-> name] }

(***************************************************************************)
(* GeminiToolsAgent.run (app/orchestration/coordinator.py)                 *)
(***************************************************************************)
\* the argument normalisation at the head of the for loop
NormalizeArgs(name, args) ==
    IF name = "jira_create_issue" THEN
        LET a1 == IF Falsy(Get(args, "project_key")) /\ ~Falsy(jira_default_project_key)
                  THEN Put(args, "project_key", jira_default_project_key) ELSE args
            a2 == IF "title" \in DOMAIN a1 /\ "summary" \notin DOMAIN a1
                  THEN Put(Pop(a1, "title"), "summary", a1["title"]) ELSE a1
            a3 == IF "description" \notin DOMAIN a2
                  THEN Put(a2, "description", "Created via agent") ELSE a2
        IN IF "issuetype_name" \notin DOMAIN a3
           THEN Put(a3, "issuetype_name", "Task") ELSE a3
    ELSE IF name = "github_create_branch" THEN
        IF "source_branch" \notin DOMAIN args \/ Falsy(Get(args, "source_branch"))
        THEN Put(args, "source_branch", "main") ELSE args
    ELSE args

ToolCall_Mutant(name, args) == [name |-> RawName(name, FALSE), args |-> EmptyDict]
\* {"name": name, "args": args} of collected_tool_calls
ToolCall(name, args) == [name |-> RawName(name, FALSE), args |-> args]
\* {"function_response": {"name": name, "response": response}}
Slot(name, response) == [name |-> name, response |-> response]
UnknownTool(name) == [error |-> [kind |-> "Unknown tool", name |-> name]]
\* {"error": str(ex)} for the exception raised while running `name`
ToolError(name) == [error |-> [kind |-> "exception", name |-> name]]
IsError(response) == "error" \in DOMAIN response

\* the email_required response of the email_send guard
EmailRequired(tool_calls) ==
    [ error |-> "email_required", toolCalls |-> tool_calls,
      model_summary |-> NoneRec, details |-> "Recipient email address is required." ]

MissingRecipient_Mutant(name, args) == name = "email_send" /\ "to" \notin DOMAIN args
\* whether the email_send guard stops the run
MissingRecipient(name, args) == name = "email_send" /\ Falsy(Get(args, "to"))

\* the locals of a coroutine that has not started
NewRun ==
    [ pc |-> "new", prompt |-> Prompt(<< >>, FALSE, FALSE), response |-> NoResponse,
      any_tool_called |-> FALSE, collected_tool_calls |-> << >>,
      function_calls |-> << >>, tool_results |-> << >>, idx |-> 0,
      name |-> "", args |-> EmptyDict, final_text |-> NoneVal, ret |-> NoneRec,
      http |-> 0, session_id |-> NoneRec, context_info |-> NoneRec, raw |-> << >>,
      emitted |-> 0, model_calls |-> 0, plain_calls |-> 0, feedbacks |-> 0,
      processed |-> << >>, invoked |-> << >>, emails |-> 0, appended |-> 0, saves |-> 0, raced |-> FALSE ]

\* a coroutine between its first await and its return
InFlight(r) == r.pc \notin { "new", "done", "raised" }

\* run_adk (app/main.py): the body answered for what agent.run returned
run_adk_body(response) ==
    IF "str" \notin DOMAIN response
       /\ ("result" \in DOMAIN response \/ "error" \in DOMAIN response
           \/ "toolCalls" \in DOMAIN response)
    THEN response
    ELSE [result |-> response, toolCalls |-> << >>, model_summary |-> NoneRec]

\* `return` of a value without touching the context
Return(q, r, value) ==
    /\ run' = [run EXCEPT ![q] = [r EXCEPT !.pc = "done", !.ret = value, !.http = 200]]
    /\ UNCHANGED <<heap, current, file>>

\* context.add_conversation(prompt, result); context_service.save_context();
\* return result
SaveAndReturn(q, r, value) ==
    /\ heap' = [heap EXCEPT ![q] = add_conversation(@, r.prompt.text, value)]
    /\ file' = save_context(current, heap', file)
    /\ run' = [run EXCEPT ![q] = [r EXCEPT !.pc = "done", !.ret = value, !.http = 200,
                                            !.appended = @ + 1, !.saves = @ + 1]]
    /\ UNCHANGED current

\* the same three statements after the for loop (lines 626-629), outside any
\* try: when add_conversation raises, the exception leaves run with the
\* context object half updated and nothing saved
SaveAndReturnOrRaise(q, r, value) ==
    IF AddConversationRaises(value)
    THEN /\ heap' = [heap EXCEPT ![q] = _extract_context_from_response(@, value)]
         /\ run' = [run EXCEPT ![q] = [r EXCEPT !.pc = "raised", !.http = 500]]
         /\ UNCHANGED <<current, file>>
    ELSE SaveAndReturn(q, r, value)

\* an exception leaves run: run_adk does not catch it, the request fails
Propagate(q, r) ==
    /\ run' = [run EXCEPT ![q] = [r EXCEPT !.pc = "raised", !.http = 500]]
    /\ UNCHANGED <<heap, current, file>>

\* body.get("session_id") of run_adk: each request comes under its own session
SessionOf(q) == [session |-> q]

\* run up to its first await: the context is fetched, the prompt is given
\* its context and the first model call is issued
Start(q, p) ==
    /\ run[q].pc = "new"
    /\ heap' = [heap EXCEPT ![q] = get_or_create_context(file, SessionOf(q))]
    /\ current' = q
    /\ run' = [o \in Requests |->
                 IF o = q THEN [run[q] EXCEPT !.pc = "generate_first", !.prompt = p,
                                              !.session_id = SessionOf(q),
                                              !.context_info =
                                                  get_context_for_prompt(current', heap')]
                 ELSE IF InFlight(run[o]) THEN [run[o] EXCEPT !.raced = TRUE]
                 ELSE run[o]]
    /\ UNCHANGED file

\* the first turn comes back: a response, or an exception; the context text
\* went into enhanced_prompt, which only the fallback reads again
GenerateFirst(q, Rs) ==
    /\ run[q].pc = "generate_first"
    /\ \/ \E resp \in Rs :
            /\ run' = [run EXCEPT ![q] = [@ EXCEPT !.pc = "while", !.response = resp,
                                                    !.context_info = NoneRec,
                                                    !.emitted = Len(resp.calls),
                                                    !.model_calls = @ + 1]]
       \/ run' = [run EXCEPT ![q] = [@ EXCEPT !.pc = "generate_plain",
                                               !.model_calls = @ + 1]]
    /\ UNCHANGED <<heap, current, file>>

\* the fallback: a plain model without tools answers, or raises
GeneratePlain(q) ==
    /\ run[q].pc = "generate_plain"
    /\ LET r == [run[q] EXCEPT !.plain_calls = @ + 1, !.context_info = NoneRec]
       IN \/ \E t \in { "answer", "", NoneVal } :
                Return(q, r, [str |-> IF Falsy(t) THEN "" ELSE t])
          \/ Propagate(q, r)

\* the head of `while True`: the function calls of the latest response
While(q) ==
    /\ run[q].pc = "while"
    /\ LET resp == run[q].response
       IN IF ~resp.parts_ok \/ resp.calls = << >>
          THEN run' = [run EXCEPT ![q] = [@ EXCEPT !.pc = "final"]]
          ELSE run' = [run EXCEPT ![q] = [@ EXCEPT !.pc = "for",
                                                   !.function_calls = resp.calls,
                                                   !.tool_results = << >>,
                                                   !.raw = << >>,
                                                   !.idx = 1]]
    /\ UNCHANGED <<heap, current, file>>

\* one pass of `for fc in function_calls` up to the runner's await
For(q) ==
    /\ run[q].pc = "for"
    /\ run[q].idx <= Len(run[q].function_calls)
    /\ LET fc == run[q].function_calls[run[q].idx]
           r == [run[q] EXCEPT !.processed = Append(@, fc)]
           name == Strip(fc.name)
           args == NormalizeArgs(name, fc.args)
           collected == Append(r.collected_tool_calls, ToolCall(name, args))
       IN IF Malformed(fc.name)
          THEN /\ run' = [run EXCEPT ![q] = [run[q] EXCEPT !.idx = @ + 1]]
               /\ UNCHANGED <<heap, current, file>>
          ELSE IF MissingRecipient(name, args)
          THEN Return(q, [r EXCEPT !.collected_tool_calls = collected],
                      EmailRequired(collected))
          ELSE IF name \notin ALL_TOOL_RUNNERS
          THEN /\ run' = [run EXCEPT ![q] =
                            [r EXCEPT !.collected_tool_calls = collected,
                                      !.tool_results = Append(@, Slot(name, UnknownTool(name))),
                                      !.raw = Append(@, UnknownTool(name)),
                                      !.idx = @ + 1]]
               /\ UNCHANGED <<heap, current, file>>
          ELSE /\ run' = [run EXCEPT ![q] =
                            [r EXCEPT !.collected_tool_calls = collected,
                                      !.name = name, !.args = args,
                                      !.invoked = Append(@, ToolCall(name, args)),
                                      !.pc = "runner"]]
               /\ UNCHANGED <<heap, current, file>>

EmailRequested_Mutant(prompt) == TRUE
\* `"email" in prompt.lower() or "notify" in prompt.lower()`
EmailRequested(prompt) == prompt.email

\* result_dict of the pull-request notification branch
ResultDict(result) ==
    [ id |-> result.id, number |-> result.number, title |-> result.title,
      state |-> result.state, html_url |-> result.html_url ]

\* tool_results[-1]["function_response"]["response"] = response
ReplaceLast(tool_results, response) ==
    [tool_results EXCEPT ![Len(tool_results)] = [@ EXCEPT !.response = response]]

\* `await runner(**args)` comes back: the slot is filled and the
\* notification branches are entered up to their own await
Runner(q) ==
    /\ run[q].pc = "runner"
    /\ LET r == run[q]
           name == r.name
       IN \/ /\ Binds(name, r.args)
             /\ \E result \in RunnerResults(name, r.args) :
               LET results == Append(r.tool_results, Slot(name, result))
                   r1 == [r EXCEPT !.tool_results = results, !.any_tool_called = TRUE,
                                   !.raw = Append(@, result)]
               IN IF name = "github_create_pull_request" /\ HasAttr(result, "number")
                     /\ EmailRequested(r.prompt)
                  THEN IF r.prompt.address
                       THEN run' = [run EXCEPT ![q] = [r1 EXCEPT !.pc = "send_email"]]
                       ELSE run' = [run EXCEPT ![q] =
                              [r1 EXCEPT !.tool_results =
                                    ReplaceLast(results,
                                        Put(ResultDict(result), "email_notification",
                                            "no_email_found")),
                                  !.pc = "for", !.idx = @ + 1]]
                  ELSE IF name = "github_close_pull_request"
                          /\ ~(name = "github_create_pull_request" /\ HasAttr(result, "number"))
                          /\ Get(result, "state") = "closed" /\ EmailRequested(r.prompt)
                  THEN run' = [run EXCEPT ![q] = [r1 EXCEPT !.pc = "close_summary"]]
                  ELSE run' = [run EXCEPT ![q] = [r1 EXCEPT !.pc = "for", !.idx = @ + 1]]
          \/ run' = [run EXCEPT ![q] =
                       [r EXCEPT !.tool_results = Append(@, Slot(name, ToolError(name))),
                                 !.raw = Append(@, ToolError(name)),
                                 !.pc = "for", !.idx = @ + 1]]
    /\ UNCHANGED <<heap, current, file>>

\* `await send_email(...)` of the pull-request notification comes back
SendEmail(q) ==
    /\ run[q].pc = "send_email"
    /\ LET r == run[q]
           result == r.tool_results[Len(r.tool_results)].response
       IN \E outcome \in { "sent", "failed", Raises } :
            run' = [run EXCEPT ![q] =
                [r EXCEPT !.emails = @ + 1,
                          !.tool_results =
                              ReplaceLast(@,
                                  IF outcome = Raises
                                  THEN Put(ResultDict(result), "email_error", "exception")
                                  ELSE Put(ResultDict(result), "email_notification", outcome)),
                          !.pc = "for", !.idx = @ + 1]]
    /\ UNCHANGED <<heap, current, file>>

\* the summary call of the pull-request closure branch comes back
CloseSummary(q) ==
    /\ run[q].pc = "close_summary"
    /\ LET r == run[q]
           result == r.tool_results[Len(r.tool_results)].response
       IN \E outcome \in { "initial_summary_generated", Raises } :
            run' = [run EXCEPT ![q] =
                [r EXCEPT !.model_calls = @ + 1,
                          !.tool_results =
                              ReplaceLast(@,
                                  IF outcome = Raises
                                  THEN Put(result, "email_error", "exception")
                                  ELSE Put(result, "email_workflow", outcome)),
                          !.pc = "for", !.idx = @ + 1]]
    /\ UNCHANGED <<heap, current, file>>

\* [tr["function_response"]["response"] for tr in tool_results]
ResponsesOf(tool_results) == [i \in DOMAIN tool_results |-> tool_results[i].response]

\* the fallback summary built from the name of collected_tool_calls[0]
FallbackSummary(tool_name) ==
    CASE tool_name = "jira_get_projects" -> [text |-> "Retrieved the list of available Jira projects."]
      [] tool_name = "jira_get_issues_for_project" -> [text |-> "Retrieved the list of Jira issues for the project."]
      [] OTHER -> [executed |-> tool_name]

\* the response built when tools were executed in this turn
ToolResponse(r, model_summary) ==
    IF Len(r.tool_results) = 1
    THEN [ result |-> r.tool_results[1].response,
           toolCalls |-> r.collected_tool_calls,
           model_summary |-> model_summary ]
    ELSE [ result |-> [items |-> ResponsesOf(r.tool_results)],
           toolCalls |-> r.collected_tool_calls,
           model_summary |-> NoneRec ]

\* whether the turn's results are returned at the end of the for loop
ReturnsToolResults(r) == r.any_tool_called /\ r.tool_results # << >>

\* the end of the for loop: return the tool results, ask for the summary
\* of a single result, or hand the results back to the model
ForEnd(q) ==
    /\ run[q].pc = "for"
    /\ run[q].idx > Len(run[q].function_calls)
    /\ LET r == run[q]
       IN IF ReturnsToolResults(r)
          THEN IF Len(r.tool_results) = 1
               THEN /\ run' = [run EXCEPT ![q] = [r EXCEPT !.pc = "summary"]]
                    /\ UNCHANGED <<heap, current, file>>
               ELSE SaveAndReturnOrRaise(q, r, ToolResponse(r, NoneRec))
          ELSE /\ run' = [run EXCEPT ![q] = [r EXCEPT !.pc = "feedback"]]
               /\ UNCHANGED <<heap, current, file>>

\* the one-sentence summary of a single tool result comes back
Summary(q) ==
    /\ run[q].pc = "summary"
    /\ LET r == [run[q] EXCEPT !.model_calls = @ + 1]
       IN \E outcome \in { "summary", NoneVal, Raises } :
            SaveAndReturnOrRaise(q, r,
                ToolResponse(r,
                    IF outcome = Raises
                    THEN FallbackSummary(r.collected_tool_calls[1].name.core)
                    ELSE IF outcome = NoneVal THEN NoneRec
                    ELSE [text |-> outcome]))

\* generate_content_async(tool_results) comes back: the next turn, or an
\* exception that leaves the loop
Feedback(q, Rs, limit) ==
    /\ run[q].pc = "feedback"
    /\ \/ \E resp \in Rs :
            /\ run[q].emitted + Len(resp.calls) <= limit
            /\ run' = [run EXCEPT ![q] = [@ EXCEPT !.pc = "while", !.response = resp,
                                                    !.emitted = @ + Len(resp.calls),
                                                    !.model_calls = @ + 1,
                                                    !.feedbacks = @ + 1]]
       \/ run' = [run EXCEPT ![q] = [@ EXCEPT !.pc = "final",
                                               !.model_calls = @ + 1,
                                               !.feedbacks = @ + 1]]
    /\ UNCHANGED <<heap, current, file>>

\* the function calls of the last response as the error branch lists them
RawToolCalls(calls) ==
    [i \in DOMAIN calls |-> [name |-> calls[i].name, args |-> calls[i].args]]

\* tool_results_data of the final branch
ToolResultsData(r) ==
    IF r.any_tool_called /\ r.tool_results # << >>
    THEN IF Len(r.tool_results) = 1 THEN r.tool_results[1].response
         ELSE [items |-> ResponsesOf(r.tool_results)]
    ELSE NoneRec

\* the response of the code after the loop, for what reading response.text gave
FinalResponse(r, final_text) ==
    IF final_text # Raises
    THEN IF BlankText(final_text) /\ ~r.any_tool_called
         THEN [ error |-> "Model did not produce a final text and no tool was called.",
                toolCalls |-> r.collected_tool_calls ]
         ELSE [ result |-> ToolResultsData(r),
                toolCalls |-> r.collected_tool_calls,
                model_summary |-> [text |-> final_text] ]
    ELSE IF r.response.parts_ok /\ r.response.calls # << >>
         THEN [ error |-> "Failed to read model text; model returned function_call parts.",
                toolCalls |-> RawToolCalls(r.response.calls) ]
         ELSE [ error |-> "Failed to read model response." ]

\* the code after the loop: the final text or a structured error
Final(q) ==
    /\ run[q].pc = "final"
    /\ \E final_text \in TextOutcomes :
         LET r == [run[q] EXCEPT !.final_text = final_text]
         IN SaveAndReturn(q, r, FinalResponse(r, final_text))

(***************************************************************************)
(* One request at a time, the model free to answer anything.               *)
(***************************************************************************)
\* a context file left by an earlier session
EarlierFile ==
    FileOf(to_dict(add_conversation(
        [SessionContext EXCEPT !.session_id = "global_context"],
        <<"earlier prompt", 0>>,
        [result |-> NoneRec, toolCalls |-> << >>, model_summary |-> [text |-> "answer"]])))

Init ==
    /\ run = [q \in Requests |-> NewRun]
    /\ heap = [q \in Requests |-> SessionContext]
    /\ current = 0
    /\ file = EarlierFile

Next ==
    \/ \E p \in Prompts(1) : Start(1, p)
    \/ GenerateFirst(1, Responses(AllCalls, MaxFunctionCalls))
    \/ GeneratePlain(1)
    \/ While(1)
    \/ For(1)
    \/ Runner(1)
    \/ SendEmail(1)
    \/ CloseSummary(1)
    \/ ForEnd(1)
    \/ Summary(1)
    \/ Feedback(1, Responses(AllCalls, MaxFunctionCalls), MaxFunctionCalls)
    \/ Final(1)

Spec == Init /\ [][Next]_vars

(***************************************************************************)
(* Overlapping requests: the coroutines interleave at their awaits.        *)
(***************************************************************************)
InitConc ==
    /\ run = [q \in Requests |-> NewRun]
    /\ heap = [q \in Requests |-> SessionContext]
    /\ current = 0
    /\ file = NoFile

NextConc ==
    \E q \in Requests :
        \/ \E p \in ConcPrompts(q) : Start(q, p)
        \/ GenerateFirst(q, ConcResponses)
        \/ GeneratePlain(q)
        \/ While(q)
        \/ For(q)
        \/ Runner(q)
        \/ ForEnd(q)
        \/ Summary(q)
        \/ Feedback(q, ConcFeedback, MaxFunctionCalls)
        \/ Final(q)

SpecConc == InitConc /\ [][NextConc]_vars

(***************************************************************************)
(* The context store on its own: callers of ContextService and of          *)
(* SessionContext.add_conversation, one call at a time.                    *)
(***************************************************************************)
\* context_service.get_or_create_context(session_id) followed by
\* get_context_for_prompt, as run does at its head
StoreGet(q) ==
    /\ heap' = [heap EXCEPT ![q] = get_or_create_context(file, SessionOf(q))]
    /\ current' = q
    /\ run' = [run EXCEPT ![q] = [@ EXCEPT !.pc = "loaded",
                                           !.session_id = SessionOf(q),
                                           !.context_info =
                                               get_context_for_prompt(current', heap')]]
    /\ UNCHANGED file

\* context.add_conversation(prompt, response) on the context the caller
\* holds; the prompt's context text is a local of the caller and is gone
StoreAdd(q, user_input, response, limit) ==
    /\ current = q
    /\ Len(heap[q].conversation_history) < limit
    /\ ~AddConversationRaises(response)
    /\ heap' = [heap EXCEPT ![q] = add_conversation(@, user_input, response)]
    /\ run' = [run EXCEPT ![q] = [@ EXCEPT !.pc = "held", !.context_info = NoneRec]]
    /\ UNCHANGED <<current, file>>

\* context_service.save_context()
StoreSave ==
    /\ current # 0
    /\ file' = save_context(current, heap, file)
    /\ UNCHANGED <<run, heap, current>>

\* the body run_adk answers to the prompt "/clearcontext"
ClearConfirmation ==
    [ result |-> Str("Context cleared successfully. Starting fresh session."),
      toolCalls |-> << >>,
      model_summary |-> Str("Session context has been reset.") ]

\* a clear that overwrites the file and answers, and leaves the store's
\* current context in place
ClearContext_Mutant(q) ==
    /\ file' = FileOf(to_dict(clear_context))
    /\ run' = [run EXCEPT ![q] =
                 [@ EXCEPT !.pc = "cleared", !.ret = ClearConfirmation, !.http = 200]]
    /\ UNCHANGED <<heap, current>>

\* run_adk with the prompt "/clearcontext": clear_context and the fixed answer
ClearContext(q) ==
    /\ heap' = [heap EXCEPT ![q] = clear_context]
    /\ current' = q
    /\ file' = FileOf(to_dict(heap'[q]))
    /\ run' = [run EXCEPT ![q] =
                 [@ EXCEPT !.pc = IF @ \in {"cleared", "cleared_again"}
                                  THEN "cleared_again" ELSE "cleared",
                           !.context_info = NoneRec,
                           !.ret = ClearConfirmation, !.http = 200]]

(***************************************************************************)
(* Save and reload of any context: a caller builds a SessionContext,       *)
(* saves it and another caller fetches the context.                        *)
(***************************************************************************)
anIssue == [number |-> "7", title |-> "i", html_url |-> "https://github.com/o/r/issues/7"]
aPull ==
    [id |-> "1", number |-> "1", title |-> "t", state |-> "open",
     html_url |-> "https://github.com/o/r/pull/1"]
aJiraIssue == [key |-> "OPS-7", fields |-> "f"]
aJiraProject == [key |-> "OPS", name |-> "Operations"]
aSprint == [id |-> "3", name |-> "Sprint 3"]
anAction == [tool |-> RawName("github_get_repos", FALSE), args |-> EmptyDict,
             result |-> NoneRec]
aTurn ==
    [ user_input |-> <<"earlier prompt", 0>>,
      agent_response |-> [result |-> NoneRec, toolCalls |-> << >>,
                          model_summary |-> [text |-> "answer"]],
      tools_used |-> << >>, success |-> FALSE ]

Copies(x, n) == [i \in 1..n |-> x]

\* the contexts a caller may have built: every list empty or filled, within
\* its cap, with or without history and repository
SavedContexts ==
    { [ session_id |-> "global_context",
        conversation_history |-> Copies(aTurn, h),
        current_owner |-> IF repository THEN "o" ELSE NoneVal,
        current_repository |-> IF repository THEN "r" ELSE NoneVal,
        active_branches |-> << >>,
        recent_issues |-> Copies(anIssue, i),
        recent_prs |-> Copies(aPull, p),
        current_jira_project_key |-> NoneVal,
        recent_jira_issues |-> Copies(aJiraIssue, ji),
        recent_jira_projects |-> Copies(aJiraProject, jp),
        recent_jira_sprints |-> Copies(aSprint, js),
        recent_actions |-> Copies(anAction, a) ] :
        h \in 0..MaxSaved, repository \in BOOLEAN, i \in 0..MaxSaved, p \in 0..MaxSaved,
        ji \in 0..MaxSaved, jp \in 0..MaxSaved, js \in 0..MaxSaved, a \in 0..MaxSaved }

InitRoundTrip ==
    /\ run = [q \in Requests |-> IF q = 1 THEN [NewRun EXCEPT !.pc = "held"] ELSE NewRun]
    /\ \E ctx \in SavedContexts :
          heap = [q \in Requests |-> IF q = 1 THEN ctx ELSE SessionContext]
    /\ current = 1
    /\ file = NoFile

NextRoundTrip ==
    \/ StoreSave
    \/ StoreGet(2)

SpecRoundTrip == InitRoundTrip /\ [][NextRoundTrip]_vars

(***************************************************************************)
(* The store from an empty context: turns are recorded, the context is     *)
(* saved, fetched again and cleared, in any order.                         *)
(***************************************************************************)
\* the responses the turns record: a created pull request with its
\* notification (after a first turn with an unknown tool) and single GitHub
\* and Jira items, one for each list a dict result is inserted in
StoreResponses ==
    { [ result |-> Put(aPull, "email_notification", "sent"),
        toolCalls |-> << ToolCall("frobnicate", EmptyDict),
                         ToolCall("github_create_pull_request",
                                  [owner |-> "o", repo |-> "r", title |-> "t",
                                   head |-> "h", base |-> "main"]) >>,
        model_summary |-> [text |-> "summary"] ],
      [ result |-> anIssue,
        toolCalls |-> << ToolCall("github_comment_issue",
                                  [owner |-> "o", repo |-> "r", issue_number |-> "7",
                                   comment_body |-> "c"]) >>,
        model_summary |-> NoneRec ],
      [ result |-> aJiraIssue,
        toolCalls |-> << ToolCall("jira_fetch_issue", [ticket_id |-> "OPS-7"]) >>,
        model_summary |-> [text |-> "summary"] ],
      [ result |-> aJiraProject,
        toolCalls |-> << ToolCall("jira_get_sprints", [project_key |-> "OPS"]) >>,
        model_summary |-> [text |-> "summary"] ] }

StorePrompt == <<"prompt", 1>>

InitStore ==
    /\ run = [q \in Requests |-> NewRun]
    /\ heap = [q \in Requests |-> SessionContext]
    /\ current = 0
    /\ file = NoFile

NextStore ==
    \/ StoreGet(1)
    \/ \E response \in StoreResponses : StoreAdd(1, StorePrompt, response, MaxTurns)
    \/ StoreSave
    \/ ClearContext(1)

SpecStore == InitStore /\ [][NextStore]_vars

(***************************************************************************)
(* Arguments and defaults: a request whose model calls the merge and the   *)
(* Jira creation tools, on no context file or an unreadable one, followed  *)
(* by a second request that the model answers in text.                     *)
(***************************************************************************)
fcMerge == FC("github_merge_pull_request", FALSE,
              [owner |-> "o", repo |-> "r", pr_number |-> "4"])
fcJiraBoth == FC("jira_create_issue", FALSE, [title |-> "t", summary |-> "s"])
fcJiraFull == FC("jira_create_issue", FALSE,
                 [project_key |-> "OPS", summary |-> "s", description |-> "d",
                  issuetype_name |-> "Bug"])
ArgCalls == { fcMerge, fcJira, fcJiraBoth, fcJiraFull }

ArgPrompts(q) == { Prompt(<<"merge this pr", q>>, FALSE, FALSE) }

InitArgs ==
    /\ run = [q \in Requests |-> NewRun]
    /\ heap = [q \in Requests |-> SessionContext]
    /\ current = 0
    /\ file \in { NoFile, CorruptFile }

NextArgs ==
    \/ \E p \in ArgPrompts(1) : Start(1, p)
    \/ GenerateFirst(1, Responses(ArgCalls, MaxArgCalls))
    \/ For(1)
    \/ Runner(1)
    \/ ForEnd(1)
    \/ Summary(1)
    \/ Feedback(1, Responses(ArgCalls, MaxArgCalls), MaxArgCalls)
    \/ /\ run[1].pc \in { "done", "raised" }
       /\ \E p \in ArgPrompts(2) : Start(2, p)
    \/ GenerateFirst(2, { ModelResponse(TRUE, << >>) })
    \/ \E q \in { 1, 2 } : GeneratePlain(q)
    \/ \E q \in { 1, 2 } : While(q)
    \/ \E q \in { 1, 2 } : Final(q)

SpecArgs == InitArgs /\ [][NextArgs]_vars

(***************************************************************************)
(* run_adk (app/main.py): the handler of POST /adk/agent in front of the   *)
(* orchestrator. Requests overlap; their model answers in text.            *)
(***************************************************************************)
\* the parameters of run_adk and settings.api_key as the request finds it
Request(api_key, x_api_key, prompt, body) ==
    [api_key |-> api_key, x_api_key |-> x_api_key, prompt |-> prompt, body |-> body]

\* raise HTTPException(status_code, detail)
HTTPException(status_code, detail) == [status_code |-> status_code, detail |-> detail]

\* a guard that lets a request without the header through
Unauthorized_Mutant(req) ==
    ~Falsy(req.api_key) /\ req.x_api_key # NoneVal /\ req.x_api_key # req.api_key

\* `settings.api_key and x_api_key != settings.api_key`
Unauthorized(req) == ~Falsy(req.api_key) /\ req.x_api_key # req.api_key

\* final_prompt: the prompt parameter, or body["prompt"] when it is None
final_prompt(req) ==
    IF req.prompt = NoneVal /\ "prompt" \in DOMAIN req.body
    THEN req.body.prompt
    ELSE req.prompt

\* a test that takes the empty prompt for a prompt
MissingPrompt_Mutant(req) == final_prompt(req) = NoneVal

\* `not final_prompt`
MissingPrompt(req) == Falsy(final_prompt(req))

\* final_prompt.strip() on the prompts of the model
StripPrompt(text) == IF text = " /clearcontext " THEN "/clearcontext" ELSE text

\* the handler raises before its work starts: the request is answered with
\* the exception's status and detail
Reject(q, exception) ==
    /\ run' = [run EXCEPT ![q] = [@ EXCEPT !.pc = "rejected", !.ret = exception,
                                           !.http = exception.status_code]]
    /\ UNCHANGED <<heap, current, file>>

\* run_adk up to its first await or its return
RunAdk(q, req) ==
    /\ run[q].pc = "new"
    /\ IF Unauthorized(req) THEN Reject(q, HTTPException(401, "Invalid API key"))
       ELSE IF MissingPrompt(req) THEN Reject(q, HTTPException(422, "Missing 'prompt'"))
       ELSE IF StripPrompt(final_prompt(req)) = "/clearcontext" THEN ClearContext(q)
       ELSE Start(q, Prompt(<<final_prompt(req), q>>, FALSE, FALSE))

\* the requests that arrive: with and without a configured key, a matching,
\* a different or no key header, the prompt as parameter or in the body,
\* absent, empty, the clear command or a question
HttpRequests ==
    { Request(k[1], k[2], p[1], p[2]) :
        k \in { <<NoneVal, NoneVal>>, <<"k", "k">>, <<"k", "other">>, <<"k", NoneVal>> },
        p \in { <<NoneVal, NoneRec>>, <<"", NoneRec>>, <<NoneVal, [prompt |-> ""]>>,
                <<"/clearcontext", NoneRec>>, <<" /clearcontext ", NoneRec>>,
                <<"show my repos", NoneRec>>,
                <<NoneVal, [prompt |-> "show my repos"]>> } }

\* the context file an earlier session left: a created pull request
EarlierPullFile ==
    FileOf(to_dict(add_conversation(
        [SessionContext EXCEPT !.session_id = "global_context"],
        <<"earlier prompt", 0>>,
        [ result |-> Put(aPull, "email_notification", "sent"),
          toolCalls |-> << ToolCall("github_create_pull_request",
                                    [owner |-> "o", repo |-> "r", title |-> "t",
                                     head |-> "h", base |-> "main"]) >>,
          model_summary |-> [text |-> "summary"] ])))

InitHttp ==
    /\ run = [q \in Requests |-> NewRun]
    /\ heap = [q \in Requests |-> SessionContext]
    /\ current = 0
    /\ file = EarlierPullFile

NextHttp ==
    \E q \in Requests :
        \/ \E req \in HttpRequests : RunAdk(q, req)
        \/ GenerateFirst(q, ConcFeedback)
        \/ GeneratePlain(q)
        \/ While(q)
        \/ Final(q)

SpecHttp == InitHttp /\ [][NextHttp]_vars

(***************************************************************************)
(* The tool registry (app/tools.py): the module's dict _tools, filled by   *)
(* the decorator `tool` and read by get_tool_descriptions.  Here the heap  *)
(* is that dict, in insertion order, and run the importing module's state. *)
(***************************************************************************)
\* a function given to the decorator: its __name__, its docstring (None
\* when it has none) and the parameters of its signature
Callable(name, doc, params) == [__name__ |-> name, doc |-> doc, params |-> params]
Callables ==
    { Callable("get_repos", "List repositories.", <<"owner">>),
      Callable("get_repos", NoneVal, <<"owner", "page">>),
      Callable("fetch_issue", "Fetch an issue.", <<"ticket_id">>),
      Callable("fetch_issue", "", << >>) }

\* the `name` argument of tool(...)
ToolNameArgs == { NoneVal, "", "github_get_repos", "get_repos" }

\* `name or func.__name__`
tool_name(name, func) == IF Falsy(name) THEN func.__name__ ELSE name

\* inspect.getdoc(func), replaced when falsy
description(func) ==
    IF Falsy(func.doc) THEN "No description available." ELSE func.doc

\* the wrapper `tool` builds around func: calling it calls func
wrapper(func) == [wraps |-> func]

\* the keys of a dict
Keys(dict) == { dict[i].key : i \in DOMAIN dict }

\* a dict that keeps every assignment as one more item
SetItem_Mutant(dict, key, value) == Append(dict, [key |-> key, value |-> value])

\* dict[key] = value: a present key keeps its place and gets the value, a
\* new key goes to the end
SetItem(dict, key, value) ==
    IF key \in Keys(dict)
    THEN [i \in DOMAIN dict |->
            IF dict[i].key = key THEN [key |-> key, value |-> value] ELSE dict[i]]
    ELSE Append(dict, [key |-> key, value |-> value])

\* str(inspect.signature(func))
StrSignature(params) == <<"(">> \o params \o <<")">>

\* get_tool_descriptions(): one dict per item of _tools
get_tool_descriptions(tools) ==
    [i \in DOMAIN tools |->
        [ name |-> tools[i].key,
          description |-> tools[i].value.description,
          signature |-> StrSignature(tools[i].value.signature) ]]

\* the importing module before any decorator has run
NoTools == [pc |-> "import", registrations |-> 0, warnings |-> 0,
            returned |-> NoneRec, descriptions |-> << >>]

\* @tool(name) applied to func: the warnings, the registry entry, and the
\* wrapper it returns
tool(name, func, limit) ==
    LET tool_name_ == tool_name(name, func) IN
    /\ run.registrations < limit
    /\ heap' = SetItem(heap, tool_name_,
                       [ function |-> wrapper(func),
                         description |-> description(func),
                         signature |-> func.params ])
    /\ run' = [run EXCEPT !.pc = "registered", !.registrations = @ + 1,
                          !.warnings = @ + (IF tool_name_ \in Keys(heap) THEN 1 ELSE 0)
                                         + (IF Falsy(func.doc) THEN 1 ELSE 0),
                          !.returned = wrapper(func)]
    /\ UNCHANGED <<current, file>>

\* a caller takes get_tool_descriptions()
GetToolDescriptions ==
    /\ run.pc = "registered"
    /\ run' = [run EXCEPT !.pc = "listed", !.descriptions = get_tool_descriptions(heap)]
    /\ UNCHANGED <<heap, current, file>>

InitTools ==
    /\ run = NoTools
    /\ heap = << >>
    /\ current = 0
    /\ file = NoFile

NextTools ==
    \/ \E name \in ToolNameArgs, func \in Callables : tool(name, func, MaxRegistrations)
    \/ GetToolDescriptions

SpecTools == InitTools /\ [][NextTools]_vars

(***************************************************************************)
(* What a recorded turn leaves in the context: turns whose result is a     *)
(* list of one shape or another, and turns whose tool calls name a         *)
(* repository or a Jira project.                                           *)
(***************************************************************************)
\* `n` items made of the fields of `item` (their numbering is immaterial to
\* the extraction, which looks at the keys of the first)
Repeat(item, n) == [i \in 1..n |-> Put(item, "position", i)]

\* the first items of list results, by the keys the extraction looks for
ListItems ==
    { [number |-> "7", title |-> "i"],
      [id |-> "1", number |-> "1"],
      [key |-> "OPS", name |-> "Operations"],
      [key |-> "OPS-7", fields |-> "f"],
      [id |-> "3", name |-> "Sprint 3"],
      [name |-> "r", full_name |-> "o/r"],
      [name |-> "main", commit_sha |-> "c0ffee"],
      [login |-> "octocat"] }

\* responses of run whose result is a list: of one item, or of six
ListResponses ==
    { [ result |-> [items |-> Repeat(item, n)], toolCalls |-> << >>,
        model_summary |-> NoneRec ] : item \in ListItems, n \in {1, 6} }

ghRepo == ToolCall("github_get_branches", [owner |-> "o", repo |-> "r"])
ghOther == ToolCall("github_get_issues", [owner |-> "o2", repo |-> "r2"])
ghOwnerOnly == ToolCall("github_get_repos", [owner |-> "o3"])
jiraKey == ToolCall("jira_create_issue", [project_key |-> "TP", summary |-> "s"])
jiraTicket == ToolCall("jira_fetch_issue", [ticket_id |-> "OPS-7"])
jiraPlainTicket == ToolCall("jira_fetch_issue", [ticket_id |-> "123"])
jiraKeyAndTicket ==
    ToolCall("jira_move_issue_to_sprint", [project_key |-> "TP", ticket_id |-> "OPS-7"])
otherKey == ToolCall("frobnicate", [project_key |-> "XX"])

\* the tool calls of the recorded turns
CallLists ==
    { << ghRepo >>, << ghRepo, ghOther >>, << ghOther, ghOwnerOnly >>,
      << jiraKey >>, << jiraTicket, jiraKey >>, << jiraKey, jiraPlainTicket >>,
      << jiraKeyAndTicket >>, << ghRepo, jiraTicket, otherKey >>,
      << ghOwnerOnly, otherKey >>, << jiraPlainTicket >> }

CallResponses ==
    { [ result |-> NoneRec, toolCalls |-> calls, model_summary |-> NoneRec ] :
        calls \in CallLists }

ExtractResponses == ListResponses \cup CallResponses

NextExtract ==
    \/ StoreGet(1)
    \/ \E response \in ExtractResponses :
          StoreAdd(1, StorePrompt, response, MaxExtractTurns)

SpecExtract == InitStore /\ [][NextExtract]_vars

(***************************************************************************)
(* The tools the model is offered (_build_tool_declarations) against the   *)
(* runners that serve them: one function call of an offered tool goes      *)
(* through the head of the for loop and the dispatch.  Here run is the     *)
(* loop's locals for that one call.                                        *)
(***************************************************************************)
\* the "properties" of each declared tool's parameter schema
Properties(name) ==
    CASE name = "jira_fetch_issue" -> { "ticket_id" }
      [] name = "jira_create_issue" ->
            { "project_key", "summary", "description", "issuetype_name" }
      [] name \in { "jira_get_projects", "github_get_repos" } -> {}
      [] name = "jira_get_issues_for_project" -> { "project_key" }
      [] name = "jira_comment_issue" -> { "issue_key", "comment_text" }
      [] name \in { "jira_get_issue_comments", "jira_get_possible_transitions" } ->
            { "issue_key" }
      [] name = "jira_transition_issue" -> { "issue_key", "transition_id" }
      [] name = "jira_summarize_and_email_issue" ->
            { "issue_key", "to_email", "additional_context" }
      [] name \in { "github_get_branches", "github_get_issues" } -> { "owner", "repo" }
      [] name = "github_create_branch" ->
            { "owner", "repo", "branch_name", "source_branch" }
      [] name = "github_get_pull_requests" -> { "owner", "repo", "state" }
      [] name \in { "github_get_pr_files", "github_close_pull_request" } ->
            { "owner", "repo", "pr_number" }
      [] name = "github_create_issue" -> { "owner", "repo", "title", "body" }
      [] name = "github_create_pull_request" ->
            { "owner", "repo", "title", "head", "base", "body" }
      [] name = "github_merge_pull_request" ->
            { "owner", "repo", "pr_number", "commit_title", "commit_message",
              "merge_method" }
      [] name = "github_comment_issue" ->
            { "owner", "repo", "issue_number", "comment_body" }
      [] name = "email_send" -> { "to", "subject", "body" }
      [] name = "email_confirm_and_send" -> { "to", "subject", "body", "action_type" }
      [] name = "regenerate_email_summary" ->
            { "initial_summary", "user_feedback", "key_points", "pr_details",
              "to_email", "issue_details" }
      [] name = "finalize_email_summary" -> { "final_summary", "to_email", "pr_details" }

\* the properties each schema leaves out of "required"
Optional(name) ==
    CASE name = "jira_create_issue" -> { "issuetype_name" }
      [] name = "jira_summarize_and_email_issue" -> { "additional_context" }
      [] name = "github_create_branch" -> { "source_branch" }
      [] name = "github_get_pull_requests" -> { "state" }
      [] name \in { "github_create_issue", "github_create_pull_request" } -> { "body" }
      [] name = "github_merge_pull_request" ->
            { "commit_title", "commit_message", "merge_method" }
      [] name = "regenerate_email_summary" ->
            { "key_points", "pr_details", "to_email", "issue_details" }
      [] OTHER -> {}

\* the names of the declarations, in the order of the list
Declarations ==
    << "jira_fetch_issue", "jira_create_issue", "jira_get_projects",
       "jira_get_issues_for_project", "jira_comment_issue", "jira_get_issue_comments",
       "jira_get_possible_transitions", "jira_transition_issue",
       "jira_summarize_and_email_issue", "github_get_repos", "github_get_branches",
       "github_create_branch", "github_get_issues", "github_get_pull_requests",
       "github_get_pr_files", "github_create_issue", "github_create_pull_request",
       "github_merge_pull_request", "github_close_pull_request", "github_comment_issue",
       "email_send", "email_confirm_and_send", "regenerate_email_summary",
       "finalize_email_summary" >>

\* the loop's locals before the model's function call
NoCall == [pc |-> "model", name |-> "", given |-> {}, args |-> EmptyDict,
           response |-> NoneRec]

\* the model calls a declared tool with some of the schema's properties; the
\* head of the for loop normalises the arguments
FunctionCall(name, keys) ==
    /\ run.pc = "model"
    /\ run' = [run EXCEPT !.pc = "for", !.name = name, !.given = keys,
                          !.args = NormalizeArgs(name, [k \in keys |-> "v"])]
    /\ UNCHANGED <<heap, current, file>>

\* the email_send guard returns its error to the caller
AsksRecipient ==
    /\ run.pc = "for" /\ MissingRecipient(run.name, run.args)
    /\ run' = [run EXCEPT !.pc = "returned",
                          !.response = EmailRequired(<< ToolCall(run.name, run.args) >>)]
    /\ UNCHANGED <<heap, current, file>>

\* ALL_TOOL_RUNNERS.get(name) is None
NoRunner ==
    /\ run.pc = "for" /\ ~MissingRecipient(run.name, run.args)
    /\ run.name \notin ALL_TOOL_RUNNERS
    /\ run' = [run EXCEPT !.pc = "answered", !.response = UnknownTool(run.name)]
    /\ UNCHANGED <<heap, current, file>>

\* `await runner(**args)`: the call binds and the runner takes it, or it
\* raises TypeError, which the loop answers as the tool's error
Dispatch ==
    /\ run.pc = "for" /\ ~MissingRecipient(run.name, run.args)
    /\ run.name \in ALL_TOOL_RUNNERS
    /\ run' = [run EXCEPT !.pc = "answered",
                          !.response = IF Binds(run.name, run.args)
                                       THEN [accepted |-> run.args]
                                       ELSE ToolError(run.name)]
    /\ UNCHANGED <<heap, current, file>>

InitDispatch ==
    /\ run = NoCall
    /\ heap = << >>
    /\ current = 0
    /\ file = NoFile

NextDispatch ==
    \/ \E i \in DOMAIN Declarations :
          \E keys \in SUBSET Properties(Declarations[i]) :
              FunctionCall(Declarations[i], keys)
    \/ AsksRecipient
    \/ NoRunner
    \/ Dispatch

SpecDispatch == InitDispatch /\ [][NextDispatch]_vars

(***************************************************************************)
(* Moving an issue to a sprint: the runner run_jira_move_issue_to_sprint   *)
(* (adk_tools/runners.py) and the service function move_issue_to_sprint    *)
(* (services/jira_service.py) it calls.  Here run is the one call.         *)
(***************************************************************************)
\* a Python int (a str is Str(t))
PyInt(n) == [int |-> n]

\* a value as an f-string writes it
Formatted(value) == [formatted |-> value]

TicketIds == { Str("TP-1"), Str("TP-2"), Str("TP-3"), Str("OPS-7"), Str("OPS-8"), Str("OPS-9") }
SprintIds == { PyInt(n) : n \in 1..MaxSprintId }

\* the POST that move_issue_to_sprint(sprint_id, issue_key) sends
move_issue_to_sprint(sprint_id, issue_key) ==
    [ method |-> "POST",
      url |-> [ base |-> "jira_base_url", path |-> "/rest/agile/1.0/sprint/{}/issue",
                sprint |-> Formatted(sprint_id) ],
      json |-> [ issues |-> << issue_key >> ] ]

\* run_jira_move_issue_to_sprint(ticket_id, sprint_id): the service function
\* is called with the two values in this order
run_jira_move_issue_to_sprint(ticket_id, sprint_id) ==
    move_issue_to_sprint(ticket_id, sprint_id)

NoMove == [pc |-> "idle", ticket_id |-> NoneRec, sprint_id |-> NoneRec,
           jira_mock |-> FALSE, request |-> NoneRec, http |-> 0]

\* the dispatch awaits the runner: in mock mode the service returns at once,
\* otherwise it sends its request
MoveIssue(ticket_id, sprint_id, jira_mock) ==
    /\ run.pc = "idle"
    /\ run' = [run EXCEPT !.pc = IF jira_mock THEN "returned" ELSE "posted",
                          !.ticket_id = ticket_id, !.sprint_id = sprint_id,
                          !.jira_mock = jira_mock,
                          !.request = IF jira_mock THEN NoneRec
                                      ELSE run_jira_move_issue_to_sprint(ticket_id, sprint_id)]
    /\ UNCHANGED <<heap, current, file>>

\* Jira answers the request
JiraAnswers ==
    /\ run.pc = "posted"
    /\ run' = [run EXCEPT !.pc = "returned", !.http = 204]
    /\ UNCHANGED <<heap, current, file>>

\* the request fails on the way: HTTPException(502)
JiraUnreachable ==
    /\ run.pc = "posted"
    /\ run' = [run EXCEPT !.pc = "raised", !.http = 502]
    /\ UNCHANGED <<heap, current, file>>

InitSprint ==
    /\ run = NoMove
    /\ heap = << >>
    /\ current = 0
    /\ file = NoFile

NextSprint ==
    \/ \E ticket_id \in TicketIds, sprint_id \in SprintIds, jira_mock \in BOOLEAN :
          MoveIssue(ticket_id, sprint_id, jira_mock)
    \/ JiraAnswers
    \/ JiraUnreachable

SpecSprint == InitSprint /\ [][NextSprint]_vars

TypeOK ==
    /\ current \in 0..MaxRequests
    /\ \A q \in Requests : run[q].idx \in 0..(MaxFunctionCalls + 2)

(***************************************************************************)
(* Vocabulary of the properties.                                           *)
(***************************************************************************)
\* the function calls of the current turn that the for loop has dealt with
Reached(r, i) ==
    /\ i \in 1..Len(r.function_calls)
    /\ i < r.idx \/ (i = r.idx /\ r.pc # "for")

\* the for loop has gone past call i: it was skipped, answered or run
Passed(r, i) == i \in 1..Len(r.function_calls) /\ i < r.idx

Named(fc) == fc.name.core # ""
IsUnknownCall(fc) == Named(fc) /\ fc.name.core \notin ALL_TOOL_RUNNERS
LacksRecipient(fc) ==
    /\ fc.name.core = "email_send"
    /\ "to" \notin DOMAIN fc.args \/ fc.args["to"] = ""

\* the place in tool_results of the slot of call i of the turn
SlotIndex(calls, i) == Cardinality({ k \in 1..i : Named(calls[k]) })

Done(r) == r.pc = "done"
IsEmailRequired(resp) == "error" \in DOMAIN resp /\ resp.error = "email_required"

(***************************************************************************)
(* C1  An unknown tool name is answered in its slot and stops nothing.     *)
(***************************************************************************)
\* the slot of every unknown call is {error: "Unknown tool: <name>"}, and
\* the slots follow the order of the calls
UnknownSlots(r) ==
    \A i \in 1..Len(r.function_calls) :
        Passed(r, i) /\ Named(r.function_calls[i]) =>
            LET k == SlotIndex(r.function_calls, i)
                n == r.function_calls[i].name.core
            IN /\ k <= Len(r.tool_results)
               /\ r.tool_results[k].name = n
               /\ IsUnknownCall(r.function_calls[i]) =>
                      r.tool_results[k].response =
                          [error |-> [kind |-> "Unknown tool", name |-> n]]

\* no exception leaves run once a function call has been looked at
NoRaiseAfterDispatch(r) == r.pc = "raised" => r.processed = << >>

\* C1: for every function call whose name has no runner, run records
\* {error: "Unknown tool: <name>"} as its result, raises nothing and still
\* dispatches every later function call of the turn, in list order
C1_UnknownToolAllRemainingDispatched ==
    \A q \in Requests :
        LET r == run[q] IN
        /\ UnknownSlots(r)
        /\ NoRaiseAfterDispatch(r)
        /\ Done(r) =>
              \A i, j \in 1..Len(r.function_calls) :
                  (i < j /\ IsUnknownCall(r.function_calls[i]) /\ Passed(r, i)
                     /\ Named(r.function_calls[j]))
                  => Passed(r, j)

(***************************************************************************)
(* C2  A raising runner is answered in its slot and reaches the caller.    *)
(***************************************************************************)
\* {error: str(exception)} of the call named n
ExceptionSlot(n) == [error |-> [kind |-> "exception", name |-> n]]

\* the response carries `slot` at place k of the turn's results
CarriesSlot(resp, k, slot) ==
    /\ "result" \in DOMAIN resp
    /\ \/ k = 1 /\ resp.result = slot
       \/ /\ "items" \in DOMAIN resp.result
          /\ k <= Len(resp.result.items)
          /\ resp.result.items[k] = slot

\* C2 as stated, for the turns that run to their end: a raising runner does
\* not make run raise, its exception is {error: str(exception)} in the
\* call's slot, and the response returned to the caller carries that slot,
\* also when every call of the turn failed
C2_ToolErrorReachesCaller ==
    \A q \in Requests :
        LET r == run[q] IN
        /\ NoRaiseAfterDispatch(r)
        /\ (Done(r) /\ ~IsEmailRequired(r.ret)) =>
              \A k \in 1..Len(r.tool_results) :
                  r.tool_results[k].response = ExceptionSlot(r.tool_results[k].name)
                  => CarriesSlot(r.ret, k, ExceptionSlot(r.tool_results[k].name))

(***************************************************************************)
(* C3  email_send without a recipient stops the run before the runner.     *)
(***************************************************************************)
\* C3: for every email_send call the loop reaches whose `to` is missing or
\* empty, run has returned {error: "email_required", toolCalls} with that
\* call last in toolCalls, and neither the email runner nor send_email was
\* started for it
C3_EmailRequired ==
    \A q \in Requests :
        LET r == run[q] IN
        /\ \A i \in 1..Len(r.function_calls) :
              (Reached(r, i) /\ LacksRecipient(r.function_calls[i])) =>
                  /\ Done(r)
                  /\ r.idx = i
                  /\ IsEmailRequired(r.ret)
                  /\ "toolCalls" \in DOMAIN r.ret
                  /\ r.ret.toolCalls # << >>
                  /\ r.ret.toolCalls[Len(r.ret.toolCalls)] =
                        [name |-> [core |-> "email_send", pad |-> FALSE],
                         args |-> r.function_calls[i].args]
        /\ \A k \in 1..Len(r.invoked) :
              ~(/\ r.invoked[k].name.core = "email_send"
                /\ "to" \notin DOMAIN r.invoked[k].args \/ r.invoked[k].args["to"] = "")
        /\ r.pc = "send_email" => r.name = "github_create_pull_request"
        /\ r.pc = "runner" => ~LacksRecipient(r.function_calls[r.idx])

\* a run stopped by an email_send call with an empty `to` that came after
\* another call of the turn
C3_Witness ==
    \E q \in Requests :
        LET r == run[q] IN
        /\ Done(r)
        /\ IsEmailRequired(r.ret)
        /\ Len(r.ret.toolCalls) >= 2
        /\ r.idx >= 2
        /\ "to" \in DOMAIN r.function_calls[r.idx].args

(***************************************************************************)
(* C4  Every return persists the turn.                                     *)
(***************************************************************************)
\* C4 as stated: every run that has returned has appended exactly one
\* {prompt, response} entry to conversation_history and has overwritten the
\* context file
C4_EveryReturnPersists ==
    \A q \in Requests :
        LET r == run[q]
            h == heap[q].conversation_history
        IN Done(r) =>
              /\ r.appended = 1
              /\ r.saves = 1
              /\ h # << >>
              /\ h[Len(h)].user_input = r.prompt.text
              /\ h[Len(h)].agent_response = r.ret

(***************************************************************************)
(* C5  The number of model calls of a run is bounded.                      *)
(***************************************************************************)
\* C5 as stated, with the bound the termination policy gives: the tool
\* results of a run are handed back to the model at most once, whatever the
\* model answers
C5_ResultsFedBackAtMostOnce ==
    \A q \in Requests : run[q].feedbacks <= 1

(***************************************************************************)
(* C6  The results of the first turn with a successful call are returned.  *)
(***************************************************************************)
\* a call of the current turn has completed without raising
Succeeded(r) ==
    \E k \in 1..Len(r.tool_results) : "error" \notin DOMAIN r.tool_results[k].response

\* `result` is the single response of a one-slot turn, else the list of
\* the responses of all slots in dispatch order
ResultOfTurn(r, resp) ==
    /\ "result" \in DOMAIN resp
    /\ IF Len(r.tool_results) = 1
       THEN resp.result = r.tool_results[1].response
       ELSE resp.result =
              [items |-> [k \in 1..Len(r.tool_results) |-> r.tool_results[k].response]]

\* once a call has succeeded the model is not asked for another turn
NoTurnAfterSuccess(r) ==
    Succeeded(r) =>
        r.pc \in {"for", "runner", "send_email", "close_summary", "summary", "done", "raised"}

\* C6: in the first turn with a call that completes without raising, run
\* returns right after that turn (no exception leaves it), and `result` is
\* the single response or the list of all the turn's slots
C6_SuccessfulTurnReturnsResults ==
    \A q \in Requests :
        LET r == run[q] IN
        /\ NoTurnAfterSuccess(r)
        /\ Succeeded(r) => r.pc # "raised"
        /\ (Done(r) /\ Succeeded(r)) => ResultOfTurn(r, r.ret)


(***************************************************************************)
(* C7  A failing model never fails the request.                            *)
(***************************************************************************)
\* C7 as stated: after a failing first model call run makes one toolless
\* attempt, and when that one fails too run returns a structured error, so
\* that the request is answered 200
C7_ModelFailureIsAnswered ==
    \A q \in Requests :
        LET r == run[q] IN
        /\ r.plain_calls <= 1
        /\ r.pc # "raised"
        /\ r.http \in {0, 200}

(***************************************************************************)
(* C8  Overlapping runs lose updates of the shared context.                *)
(***************************************************************************)
\* the persisted conversation history holds the turn of request q
InFile(q) ==
    /\ file.exists
    /\ \E i \in DOMAIN file.data.conversation_history :
          file.data.conversation_history[i].user_input = run[q].prompt.text

\* request q completed and saved, and its turn is not in the file
LostUpdate(q) == Done(run[q]) /\ run[q].saves = 1 /\ ~InFile(q)

\* C8: the turn of a run that completed and saved is missing from the file
\* only if another request fetched the context between that run's
\* get_or_create_context and its save_context; this loss does happen
\* (C8_Witness)
C8_LostUpdateOnlyByOverlap ==
    \A q \in Requests : LostUpdate(q) => run[q].raced

\* every request has completed and the file lacks the turn of one that saved
C8_Witness ==
    /\ \A p \in Requests : Done(run[p])
    /\ \E q \in Requests : LostUpdate(q)

(***************************************************************************)
(* C9  toolCalls is the audit trail of the calls of the run.               *)
(***************************************************************************)
\* the {name, args} records of the named calls the run has dealt with, in
\* order, names stripped and args normalised
ExpectedTrail(processed) ==
    [i \in DOMAIN processed |->
        [name |-> [core |-> processed[i].name.core, pad |-> FALSE],
         args |-> NormalizeArgs(processed[i].name.core, processed[i].args)]]

\* a runner is awaited only when the slots of all earlier calls are filled
RunnersInSequence(r) ==
    /\ r.pc = "runner" =>
          Len(r.tool_results) = SlotIndex(r.function_calls, r.idx - 1)
    /\ r.pc \in {"send_email", "close_summary"} =>
          Len(r.tool_results) = SlotIndex(r.function_calls, r.idx)

FailedToReadText(resp) ==
    /\ "error" \in DOMAIN resp
    /\ resp.error = "Failed to read model text; model returned function_call parts."

\* C9 as stated: toolCalls of any response is exactly the trail of the
\* named calls the run dealt with, and runners run one after the other
C9_ToolCallsIsTheTrail ==
    \A q \in Requests :
        LET r == run[q] IN
        /\ RunnersInSequence(r)
        /\ (Done(r) /\ "toolCalls" \in DOMAIN r.ret) =>
              r.ret.toolCalls = ExpectedTrail(r.processed)

\* C9 amended: ... of any response other than the "Failed to read model
\* text" error, whose toolCalls lists the function calls of the last model
\* response as the model sent them
C9_ToolCallsIsTheTrailButForReadError ==
    \A q \in Requests :
        LET r == run[q] IN
        /\ RunnersInSequence(r)
        /\ (Done(r) /\ "toolCalls" \in DOMAIN r.ret) =>
              IF FailedToReadText(r.ret)
              THEN r.ret.toolCalls =
                     [i \in DOMAIN r.response.calls |->
                        [name |-> r.response.calls[i].name,
                         args |-> r.response.calls[i].args]]
              ELSE r.ret.toolCalls = ExpectedTrail(r.processed)

\* a response whose trail holds an unknown call and a call whose args were
\* normalised
C9_Witness ==
    \E q \in Requests :
        LET r == run[q] IN
        /\ Done(r)
        /\ "toolCalls" \in DOMAIN r.ret
        /\ ~FailedToReadText(r.ret)
        /\ \E i, j \in DOMAIN r.ret.toolCalls :
              /\ r.ret.toolCalls[i].name.core \notin ALL_TOOL_RUNNERS
              /\ r.ret.toolCalls[j].name.core = "github_create_branch"
              /\ "source_branch" \in DOMAIN r.ret.toolCalls[j].args

(***************************************************************************)
(* C10  Without a successful tool call: the final text or an error.        *)
(***************************************************************************)
HasText(t) == t \notin {NoneVal, "", "  ", Raises}

\* {result: null, toolCalls, model_summary: <final text>}
TextAnswer(r, resp) ==
    /\ DOMAIN resp = {"result", "toolCalls", "model_summary"}
    /\ resp.result = NoneRec
    /\ resp.toolCalls = r.collected_tool_calls
    /\ "text" \in DOMAIN resp.model_summary
    /\ HasText(resp.model_summary.text)

StructuredError(resp) == "error" \in DOMAIN resp /\ "result" \notin DOMAIN resp

RecentLists(ctx) ==
    << ctx.recent_issues, ctx.recent_prs, ctx.recent_jira_projects,
       ctx.recent_jira_issues, ctx.recent_jira_sprints, ctx.recent_actions >>

\* C11: when a context whose recent lists are within their caps has been
\* saved and the context is fetched again, the fetched context has the six
\* recent lists of the saved one, whatever the other fields contain
C11_RoundTripKeepsRecentLists ==
    (run[2].pc = "loaded" /\ file = FileOf(to_dict(heap[1])))
        => RecentLists(heap[2]) = RecentLists(heap[1])

(***************************************************************************)
(* C12  The recent lists stay within their caps.                           *)
(***************************************************************************)
WithinCaps(ctx) ==
    /\ Len(ctx.recent_issues) <= 5
    /\ Len(ctx.recent_prs) <= 5
    /\ Len(ctx.recent_jira_projects) <= 5
    /\ Len(ctx.recent_jira_issues) <= 5
    /\ Len(ctx.recent_jira_sprints) <= 5
    /\ Len(ctx.recent_actions) <= 10

\* C12: in every state reached from an empty context by recorded turns,
\* saves, fetches and clears, each of the five recent lists of the context
\* (in memory and in the file) has at most 5 entries and recent_actions has
\* at most 10
C12_RecentListsWithinCaps ==
    /\ \A q \in Requests : WithinCaps(heap[q])
    /\ (file.exists /\ "data" \in DOMAIN file) => WithinCaps(file.data)

\* the turns of a history that inserted a pull request
PullTurns(ctx) ==
    { i \in DOMAIN ctx.conversation_history :
        LET result == ctx.conversation_history[i].agent_response.result
        IN "html_url" \in DOMAIN result /\ ContainsPull(result["html_url"]) }

\* six pull requests were inserted and twelve tool calls recorded, the lists
\* hold five and ten, and the context was saved
C12_Witness ==
    /\ Cardinality(PullTurns(heap[1])) > 5
    /\ Len(heap[1].recent_prs) = 5
    /\ Len(heap[1].recent_actions) = 10
    /\ file = FileOf(to_dict(heap[1]))

(***************************************************************************)
(* C13  /clearcontext resets the store and answers a fixed confirmation.   *)
(***************************************************************************)
EmptyContext(ctx) ==
    /\ ctx.conversation_history = << >>
    /\ ctx.current_owner = NoneVal /\ ctx.current_repository = NoneVal
    /\ ctx.current_jira_project_key = NoneVal
    /\ ctx.active_branches = << >>
    /\ RecentLists(ctx) = << << >>, << >>, << >>, << >>, << >>, << >> >>

Cleared(r) == r.pc \in { "cleared", "cleared_again" }

SessionIds == { SessionOf(q) : q \in Requests } \cup { NoneRec }

\* request p completed and saved with no other request in between, and
\* request q started afterwards, overlapped by no other request, and is at
\* its first model call
StartedAfter(p, q) ==
    /\ p # q
    /\ Done(run[p]) /\ run[p].saves = 1 /\ ~run[p].raced
    /\ run[q].pc = "generate_first" /\ ~run[q].raced

\* the turns of a prompt context that show the prompt of request p
ShownTurns(context_info, p) ==
    IF "recent" \in DOMAIN context_info
    THEN { i \in DOMAIN context_info.recent :
             context_info.recent[i].user = run[p].prompt.text }
    ELSE {}

\* C14: on any file state get_or_create_context returns for every session
\* identifier the context it returns for none; and when a request under one session identifier
\* has recorded and saved its turn, the prompt context of the next request,
\* under another session identifier, shows that turn
C14_SessionIdIgnored ==
    /\ \A s \in SessionIds :
          get_or_create_context(file, s) = get_or_create_context(file, NoneRec)
    /\ \A p, q \in Requests : StartedAfter(p, q) =>
          /\ run[p].session_id # run[q].session_id
          /\ ShownTurns(run[q].context_info, p) # {}

\* the second request, under its own session identifier, has the turn of
\* the first one in its prompt context
C14_Witness ==
    /\ StartedAfter(1, 2)
    /\ run[1].session_id = SessionOf(1) /\ run[2].session_id = SessionOf(2)
    /\ heap[2].conversation_history # << >>
    /\ ShownTurns(run[2].context_info, 1) # {}

(***************************************************************************)
(* C15  An unreadable context file gives a fresh context.                  *)
(***************************************************************************)
\* the prompt context of a context that holds nothing
NoPreviousContext(context_info) ==
    /\ "recent" \in DOMAIN context_info /\ context_info.recent = << >>
    /\ context_info.summary =
          [ repository |-> NoneRec, branches |-> << >>, issues |-> << >>, prs |-> << >>,
            jira_project |-> NoneVal, jira_projects |-> << >>, jira_issues |-> << >>,
            jira_sprints |-> << >>, actions |-> << >> ]

\* C15: when a request has fetched the context while the file exists but
\* cannot be read or parsed, it has not raised, it holds a new empty context
\* under the id "global_context", and its prompt context is the one of a
\* request that found no file
C15_UnreadableFileGivesFreshContext ==
    \A q \in Requests :
        (run[q].pc = "generate_first" /\ file = CorruptFile) =>
            /\ current = q
            /\ heap[q].session_id = "global_context"
            /\ EmptyContext(heap[q])
            /\ NoPreviousContext(run[q].context_info)

\* the first request is at its first model call on an unreadable file
C15_Witness ==
    /\ run[1].pc = "generate_first"
    /\ file.exists /\ "data" \notin DOMAIN file
    /\ heap[1].conversation_history = << >>

(***************************************************************************)
(* C16  The notification step acts only on pull-request creation and       *)
(* closure, on success, when the prompt asks for it.                       *)
(***************************************************************************)
EmailFields == { "email_notification", "email_workflow", "email_error" }
PullRequestTools == { "github_create_pull_request", "github_close_pull_request" }

\* `response` is what the runner returned plus exactly one notification field
\* (a PullRequest object having been turned into the dict of its fields)
Enriched(response, returned) ==
    LET base == IF IsObject(returned) THEN ResultDict(returned) ELSE returned
    IN \E k \in EmailFields :
          /\ k \notin DOMAIN base
          /\ DOMAIN response = DOMAIN base \cup { k }
          /\ \A x \in DOMAIN base : response[x] = base[x]

\* slot i of the turn is the runner's own answer, or it is a notified
\* pull-request result of a successful call under a prompt that asked
SlotAsReturnedOrNotified(r, i) ==
    \/ r.tool_results[i].response = r.raw[i]
    \/ /\ r.tool_results[i].name \in PullRequestTools
       /\ ~IsError(r.raw[i])
       /\ r.prompt.email
       /\ Enriched(r.tool_results[i].response, r.raw[i])

\* the results a completed turn returned, slot by slot
ReturnedResults(r) ==
    IF Len(r.tool_results) = 1 THEN << r.ret.result >> ELSE r.ret.result.items

\* C16: a result slot differs from what the runner returned only by one
\* email_notification, email_workflow or email_error field, and only for a
\* successful github_create_pull_request or github_close_pull_request under
\* a prompt that contains "email" or "notify"; send_email and the closure
\* summary call are awaited only under the same conditions; and the results
\* a turn returns, when it returns results, are its slots
C16_NotificationOnlyWhenRequested ==
    \A q \in Requests :
        LET r == run[q] IN
        /\ Len(r.raw) = Len(r.tool_results)
        /\ \A i \in DOMAIN r.tool_results : SlotAsReturnedOrNotified(r, i)
        /\ r.pc \in { "send_email", "close_summary" } =>
              /\ r.prompt.email
              /\ r.name \in PullRequestTools
              /\ ~IsError(r.raw[Len(r.raw)])
        /\ r.emails > 0 => r.prompt.email
        /\ (Done(r) /\ ReturnsToolResults(r) /\ "result" \in DOMAIN r.ret) =>
              ReturnedResults(r) = ResponsesOf(r.tool_results)

\* a turn under a prompt that asks for a notification has returned a notified
\* pull request next to another tool's result as the runner gave it
C16_Witness ==
    /\ Done(run[1])
    /\ run[1].prompt.email
    /\ \E i, j \in DOMAIN run[1].tool_results :
          /\ run[1].tool_results[i].response # run[1].raw[i]
          /\ "email_notification" \in DOMAIN run[1].tool_results[i].response
          /\ run[1].tool_results[j].name \notin PullRequestTools
          /\ ~IsError(run[1].raw[j])
          /\ run[1].tool_results[j].response = run[1].raw[j]

(***************************************************************************)
(* C17  A successful creation or closure under a prompt that asks for a    *)
(* notification carries the notification outcome.                          *)
(***************************************************************************)
\* slot i is complete: the notification step of its call is over
SlotComplete(r, i) ==
    i < Len(r.tool_results) \/ r.pc \notin { "send_email", "close_summary" }

\* C17: whenever github_create_pull_request or github_close_pull_request
\* succeeded under a prompt that contains "email" or "notify", its result
\* slot carries email_notification (creation), email_workflow (closure) or
\* email_error, whichever mode the GitHub service runs in
C17_SuccessCarriesNotificationOutcome ==
    \A q \in Requests :
        LET r == run[q] IN
        \A i \in DOMAIN r.tool_results :
            ( /\ r.tool_results[i].name \in PullRequestTools
              /\ ~IsError(r.raw[i])
              /\ r.prompt.email
              /\ SlotComplete(r, i) ) =>
                LET response == r.tool_results[i].response IN
                \/ "email_error" \in DOMAIN response
                \/ /\ r.tool_results[i].name = "github_create_pull_request"
                   /\ "email_notification" \in DOMAIN response
                \/ /\ r.tool_results[i].name = "github_close_pull_request"
                   /\ "email_workflow" \in DOMAIN response

(***************************************************************************)
(* C18  The prompt context names the pull request of an earlier turn.      *)
(***************************************************************************)
\* the tool calls of the turn request p returned that name a repository and
\* a pull request in their args
PullRequestCalls(p) ==
    IF "toolCalls" \in DOMAIN run[p].ret
    THEN { i \in DOMAIN run[p].ret.toolCalls :
             { "owner", "repo", "pr_number" } \subseteq DOMAIN run[p].ret.toolCalls[i].args }
    ELSE {}

\* the text of a prompt context names the repository owner/repo
ShowsRepository(context_info, owner, repo) ==
    /\ "recent" \in DOMAIN context_info
    /\ \/ context_info.summary.repository = [owner |-> owner, repo |-> repo]
       \/ \E i \in DOMAIN context_info.recent :
             \E j \in DOMAIN context_info.recent[i].tool_lines :
                context_info.recent[i].tool_lines[j] =
                    [line |-> "Repository", owner |-> owner, repo |-> repo]

\* the text of a prompt context has the number n: among the recent pull
\* requests of the summary or in the "Created/accessed #" line of a turn
\* (the prompts and model summaries of the model carry no number)
ShowsNumber(context_info, n) ==
    /\ "recent" \in DOMAIN context_info
    /\ \/ \E i \in DOMAIN context_info.summary.prs : context_info.summary.prs[i] = n
       \/ \E i \in DOMAIN context_info.recent :
             /\ "number" \in DOMAIN context_info.recent[i].result_line
             /\ context_info.recent[i].result_line.number = n

\* C18: when the turn a request recorded and saved has a tool call whose
\* args hold owner, repo and pr_number, the prompt context of the next
\* request contains that owner/repo and that pull-request number
C18_PromptContextNamesPullRequest ==
    \A p, q \in Requests : StartedAfter(p, q) =>
        \A i \in PullRequestCalls(p) :
            LET args == run[p].ret.toolCalls[i].args IN
            /\ ShowsRepository(run[q].context_info, args["owner"], args["repo"])
            /\ ShowsNumber(run[q].context_info, args["pr_number"])

(***************************************************************************)
(* C19  A merge without optional arguments gets a method, a title and a    *)
(* message.                                                                *)
(***************************************************************************)
MergeOptions == { "merge_method", "commit_title", "commit_message" }

\* the latest slot of the turn is the answer to the github_merge_pull_request
\* call the run dispatched last, and that call succeeded
MergeAnswered(r) ==
    /\ r.name = "github_merge_pull_request"
    /\ r.pc # "runner"
    /\ r.tool_results # << >>
    /\ r.tool_results[Len(r.tool_results)].name = "github_merge_pull_request"
    /\ ~IsError(r.tool_results[Len(r.tool_results)].response)

\* the body of the merge request the real service sent for an answer
SubmittedMerge(args, response) ==
    merge_data(MergeArg(args, "merge_method"), response.commit_title,
               response.commit_message)

\* C19: when a github_merge_pull_request call that supplied no merge_method,
\* commit_title or commit_message has succeeded, the merge method is "merge",
\* the reported commit_title and commit_message are non-empty, and the
\* request sent to GitHub carried both
C19_MergeDefaultsAreFilled ==
    \A q \in Requests :
        LET r == run[q] IN
        (MergeAnswered(r) /\ DOMAIN r.args \cap MergeOptions = {}) =>
            LET response == r.tool_results[Len(r.tool_results)].response IN
            /\ MergeArg(r.args, "merge_method") = Str("merge")
            /\ ~FalsyText(response.commit_title)
            /\ ~FalsyText(response.commit_message)
            /\ "sha" \in DOMAIN response =>
                  MergeOptions \subseteq DOMAIN SubmittedMerge(r.args, response)

(***************************************************************************)
(* C20  The arguments of jira_create_issue are normalised before dispatch. *)
(***************************************************************************)
\* C20: when the runner of a jira_create_issue call is awaited, its args hold
\* a project key (the configured default when the model gave none), the
\* model's title under `summary` and no `title`, a description ("Created via
\* agent" when the model gave none) and an issue type ("Task" when the model
\* gave none)
C20_JiraCreateIssueNormalised ==
    \A q \in Requests :
        LET r == run[q] IN
        (r.pc = "runner" /\ r.name = "jira_create_issue") =>
            LET given == r.function_calls[r.idx].args IN
            /\ "project_key" \in DOMAIN r.args
            /\ r.args["project_key"] =
                  IF Falsy(Get(given, "project_key")) THEN jira_default_project_key
                  ELSE given["project_key"]
            /\ "title" \notin DOMAIN r.args
            /\ "title" \in DOMAIN given =>
                  "summary" \in DOMAIN r.args /\ r.args["summary"] = given["title"]
            /\ "description" \in DOMAIN r.args
            /\ r.args["description"] =
                  IF "description" \in DOMAIN given THEN given["description"]
                  ELSE "Created via agent"
            /\ "issuetype_name" \in DOMAIN r.args
            /\ r.args["issuetype_name"] =
                  IF "issuetype_name" \in DOMAIN given THEN given["issuetype_name"]
                  ELSE "Task"

(***************************************************************************)
(* C21  A request without a prompt is refused and changes nothing.         *)
(***************************************************************************)
\* the request carries no prompt: none as parameter and none in the body, or
\* an empty one
NoPrompt(req) ==
    \/ req.prompt = ""
    \/ req.prompt = NoneVal /\ Get(req.body, "prompt") \in { NoneVal, "" }

\* the request was refused with a 4xx status and a detail message, and it
\* has called the model, run a tool, recorded or saved nothing
Refused(r) ==
    /\ r.pc = "rejected"
    /\ r.http \in 400..499
    /\ "detail" \in DOMAIN r.ret /\ r.ret.detail # ""
    /\ r.model_calls = 0 /\ r.plain_calls = 0 /\ r.invoked = << >>
    /\ r.appended = 0 /\ r.saves = 0

BadKey(req) == req.api_key \notin { NoneVal, "" } /\ req.x_api_key # req.api_key

\* C25: the step of run_adk on a request whose key header is missing or
\* differs from the configured key answers 401 "Invalid API key", whatever
\* its prompt (the clear command included): the context store and the file
\* stay as they were, and the request has called no model and run no tool,
\* then and ever after
C25_BadKeyIsRefusedFirst ==
    [][\A q \in Requests :
          /\ \A req \in HttpRequests :
                (RunAdk(q, req) /\ BadKey(req)) =>
                    /\ run'[q].http = 401 /\ Refused(run'[q])
                    /\ UNCHANGED <<heap, current, file>>
          /\ (Refused(run[q]) /\ run[q].http = 401) =>
                (Refused(run'[q]) /\ run'[q].http = 401)]_vars

\* a request with a bad key has been answered 401 after another request was
\* served, and the store is still that other request's
C25_Witness ==
    \E q \in Requests :
        /\ Refused(run[q]) /\ run[q].http = 401
        /\ run[q].ret.detail = "Invalid API key"
        /\ current \in Requests \ {q}

(***************************************************************************)
(* C29  What was recorded before a clear never comes back to the file.     *)
(***************************************************************************)
\* the prompts of the turns a file holds
FileTurns(f) ==
    IF f.exists /\ "data" \in DOMAIN f
    THEN { f.data.conversation_history[i].user_input :
             i \in DOMAIN f.data.conversation_history }
    ELSE {}

\* the entities of the i-th recent list of a file
FileRecent(f, i) ==
    IF f.exists /\ "data" \in DOMAIN f
    THEN { RecentLists(f.data)[i][k] : k \in DOMAIN RecentLists(f.data)[i] }
    ELSE {}

\* the requests that record their turn in this step
Recording == { p \in Requests : run'[p].appended > run[p].appended }

EntriesOf(tools, name) == { i \in DOMAIN tools : tools[i].key = name }

\* C22: when the decorator registers a function under a name the registry
\* already holds, it returns its wrapper (no error), the registry has as
\* many entries as before and exactly one for that name, and this entry
\* holds the wrapper of the later function, that function's docstring (the
\* stock description when it has none) and that function's signature; and
\* what get_tool_descriptions returns names every registered tool once
C22_LaterRegistrationWins ==
    [][/\ \A name \in ToolNameArgs, func \in Callables :
            (tool(name, func, MaxRegistrations)
               /\ tool_name(name, func) \in Keys(heap)) =>
                /\ run'.returned = wrapper(func)
                /\ Len(heap') = Len(heap)
                /\ \E i \in DOMAIN heap' :
                      /\ EntriesOf(heap', tool_name(name, func)) = {i}
                      /\ heap'[i].value.function = wrapper(func)
                      /\ heap'[i].value.description =
                            (IF func.doc \in {NoneVal, ""}
                             THEN "No description available." ELSE func.doc)
                      /\ heap'[i].value.signature = func.params
       /\ GetToolDescriptions =>
            /\ \A name \in Keys(heap) :
                  Cardinality({ i \in DOMAIN run'.descriptions :
                                  run'.descriptions[i].name = name }) = 1
            /\ \A i \in DOMAIN run'.descriptions :
                  run'.descriptions[i].name \in Keys(heap)]_vars

\* two functions with docstrings were registered under one name and the
\* descriptions were taken: one entry, with the second function
C22_Witness ==
    /\ run.pc = "listed" /\ run.registrations = 2 /\ run.warnings = 1
    /\ Len(heap) = 1 /\ Len(run.descriptions) = 1
    /\ heap[1].key = "github_get_repos"
    /\ heap[1].value.function = wrapper(Callable("fetch_issue", "Fetch an issue.", <<"ticket_id">>))

(***************************************************************************)
(* C23  A list result replaces the recent list of its shape.               *)
(***************************************************************************)
\* the recent list (its place in RecentLists) that the keys of the first
\* item select, 0 when they select none
ListShape(first_item) ==
    LET has(k) == k \in DOMAIN first_item IN
    IF has("number") /\ has("title") THEN 1
    ELSE IF has("id") /\ has("number") THEN 2
    ELSE IF has("key") /\ has("name") THEN 3
    ELSE IF has("key") /\ has("fields") THEN 4
    ELSE IF has("id") /\ has("name") THEN 5
    ELSE 0

\* C23: when a turn whose result is a non-empty list is recorded, the recent
\* list selected by the keys of its first item (number+title: issues,
\* id+number: pull requests, key+name: Jira projects, key+fields: Jira
\* issues, id+name: Jira sprints) becomes the first five items of the
\* result (all of them when there are fewer), and the other four of these
\* lists stay as they were; a list of another shape changes none of them
C23_ListResultReplacesRecent ==
    [][\A response \in ListResponses :
          StoreAdd(1, StorePrompt, response, MaxExtractTurns) =>
              LET items == response.result.items IN
              \A i \in 1..5 :
                  RecentLists(heap'[1])[i] =
                      IF i = ListShape(items[1]) THEN FirstN(items, 5)
                      ELSE RecentLists(heap[1])[i]]_vars

(***************************************************************************)
(* C24  The current repository and Jira project follow the last tool call. *)
(***************************************************************************)
CarriesRepository(call) == {"owner", "repo"} \subseteq DOMAIN call.args
HasTicketProject(call) ==
    "ticket_id" \in DOMAIN call.args /\ TicketProject(call.args["ticket_id"]) # NoneVal
CarriesProject(call) ==
    /\ StartsWithJira(call.name.core)
    /\ "project_key" \in DOMAIN call.args \/ HasTicketProject(call)

\* the project a call names: its project_key, or else the part of its
\* ticket_id before the first '-'
ProjectKeyFirst(call) ==
    IF "project_key" \in DOMAIN call.args THEN call.args["project_key"]
    ELSE TicketProject(call.args["ticket_id"])

\* the project a call names: the part of its ticket_id before the first '-',
\* or else its project_key
TicketFirst(call) ==
    IF HasTicketProject(call) THEN TicketProject(call.args["ticket_id"])
    ELSE call.args["project_key"]

\* the last place of `calls` that satisfies Test, 0 when none does
LastPlace(calls, Test(_)) ==
    LET places == { i \in DOMAIN calls : Test(calls[i]) }
    IN IF places = {} THEN 0 ELSE CHOOSE i \in places : \A j \in places : j <= i

\* recording a turn with these tool calls took the context from `before` to
\* `after` as stated, Project(call) being the project a call names
FollowsLastCall(before, after, calls, Project(_)) ==
    LET repo == LastPlace(calls, CarriesRepository)
        jira == LastPlace(calls, CarriesProject)
    IN /\ after.current_owner =
             IF repo = 0 THEN before.current_owner ELSE calls[repo].args["owner"]
       /\ after.current_repository =
             IF repo = 0 THEN before.current_repository ELSE calls[repo].args["repo"]
       /\ after.current_jira_project_key =
             IF jira = 0 THEN before.current_jira_project_key ELSE Project(calls[jira])

\* C24: when a turn is recorded, current_owner and current_repository are
\* the owner and repo of the turn's last tool call whose args hold both,
\* current_jira_project_key is the project_key, or for a call without one
\* the part of ticket_id before the first '-', of the last jira_* call that
\* carries one, and each of the three fields is as before when no call of
\* the turn carries its args
C24_ContextFollowsLastCall ==
    [][\A response \in CallResponses :
          StoreAdd(1, StorePrompt, response, MaxExtractTurns) =>
              FollowsLastCall(heap[1], heap'[1], response.toolCalls, ProjectKeyFirst)]_vars

\* C24 as amended: the same, but the Jira project of a call is the part of
\* its ticket_id before the first '-' when it carries such a ticket_id, and
\* its project_key otherwise
C24_ContextFollowsLastCallTicketFirst ==
    [][\A response \in CallResponses :
          StoreAdd(1, StorePrompt, response, MaxExtractTurns) =>
              FollowsLastCall(heap[1], heap'[1], response.toolCalls, TicketFirst)]_vars

\* two turns were recorded: the first named repository o/r and then o2/r2
\* and left o2/r2, the second named a ticket and then a project key and
\* left the key, with the repository as it was
C24_Witness ==
    /\ Len(heap[1].conversation_history) = 2
    /\ heap[1].conversation_history[1].agent_response.toolCalls = << ghRepo, ghOther >>
    /\ heap[1].conversation_history[2].agent_response.toolCalls = << jiraTicket, jiraKey >>
    /\ heap[1].current_owner = "o2" /\ heap[1].current_repository = "r2"
    /\ heap[1].current_jira_project_key = "TP"

(***************************************************************************)
(* C26  Every tool the model is offered has a runner.                      *)
(***************************************************************************)
Advertised == { Declarations[i] : i \in DOMAIN Declarations }

\* C26: every name among the tool declarations is a key of ALL_TOOL_RUNNERS:
\* a call of a declared tool that reaches the dispatch finds a runner and is
\* never answered "Unknown tool"
C26_AdvertisedToolsHaveRunners ==
    (run.pc = "answered" /\ run.name \in Advertised) =>
        /\ run.name \in ALL_TOOL_RUNNERS
        /\ run.response # UnknownTool(run.name)

(***************************************************************************)
(* C27  A call made to the schema is accepted by the runner.               *)
(***************************************************************************)
\* C27: when a declared tool that has a runner is called with exactly the
\* parameters of its schema (all of its properties, or all but some of the
\* optional ones) and the call reaches the runner, the runner's signature
\* takes the arguments: the call is not answered with an error
C27_SchemaCallsBind ==
    ( /\ run.pc = "answered"
      /\ run.name \in Advertised \cap ALL_TOOL_RUNNERS
      /\ Properties(run.name) \ Optional(run.name) \subseteq run.given
      /\ run.given \subseteq Properties(run.name) )
    => "accepted" \in DOMAIN run.response

(***************************************************************************)
(* C28  The results of a response line up with its tool calls.             *)
(***************************************************************************)
\* the run returned the results of tools
ReturnedToolResults(r) ==
    Done(r) /\ "result" \in DOMAIN r.ret /\ r.ret.result # NoneRec

\* C28: in every response of run that carries tool results, the results are
\* as many as the entries of toolCalls (one entry for a single unwrapped
\* result) and the i-th result is the answer given to the i-th entry of
\* toolCalls, also when an earlier turn of the run dispatched calls that all
\* failed
C28_ResultsAlignedWithToolCalls ==
    \A q \in Requests :
        LET r == run[q] IN
        ReturnedToolResults(r) =>
            /\ Len(ReturnedResults(r)) = Len(r.ret.toolCalls)
            /\ \A i \in DOMAIN r.tool_results :
                  /\ i \in DOMAIN r.ret.toolCalls
                  /\ r.tool_results[i].name = r.ret.toolCalls[i].name.core
                  /\ ReturnedResults(r)[i] = r.tool_results[i].response

(***************************************************************************)
(* C30  The sprint move names the caller's sprint and the caller's ticket. *)
(***************************************************************************)
\* C30: the request that run_jira_move_issue_to_sprint(ticket_id, sprint_id)
\* sends to Jira goes to the endpoint of the sprint sprint_id and lists the
\* issue ticket_id
C30_MoveNamesSprintAndTicket ==
    run.request # NoneRec =>
        /\ run.request.url.sprint = Formatted(run.sprint_id)
        /\ run.request.json.issues = << run.ticket_id >>

====
